---- MODULE Spec2Model ----
(***************************************************************************)
(* QsrMail: the SMTP transport state machine (QsrMailTransportPrivate),    *)
(* the transaction handle (QsrMailTransaction) and the coupling to the     *)
(* message renderer (QsrMailRenderer).                                     *)
(*                                                                         *)
(* Every slot of the transport is one action.  A slot is a function from   *)
(* the record of all fields (Cur) to the record after the slot returned;   *)
(* the forever-loop of _q_processStates is the recursive operator PS.      *)
(* The socket, the resolver, the timer, the server and the caller are the  *)
(* environment: their events are the actions' inputs.  Queued invocations  *)
(* are dispatched before the event loop polls the socket and the timer.    *)
(*                                                                         *)
(* The specifications share Init and the actions and differ in what the    *)
(* environment does: Spec (any server reply, connection loss, every        *)
(* configuration), SpecFault (timer expiry and QsrMailTransport::abort),   *)
(* SpecAbort (QsrMailTransaction::abort), SpecRender (a socket whose write *)
(* buffer fills), FairSpec (the fair event loop), SpecPlain (a server that *)
(* accepts everything), SpecData (the bytes of one DATA phase) and         *)
(* SpecRcpt (the RCPT TO commands of one transaction), SpecQp and           *)
(* SpecQpFair (one quoted-printable encoder and the reads of its consumer), *)
(* SpecTree (the renderer over the part tree of one message) and           *)
(* SpecHeaders (the cooked headers of one message), SpecB64 (one Base64     *)
(* encoder, its source and the reads of its consumer), SpecPump and        *)
(* SpecPumpFair (the buffer, the devices and the queued calls of one       *)
(* renderer), SpecLine (the lines of the server, read one at a time).      *)
(***************************************************************************)
EXTENDS Integers, Sequences, FiniteSets, TLC

VARIABLES
    state,            \* QsrMailTransportPrivate::state
    queue,            \* QsrMailTransportPrivate::queue (transaction ids)
    tx,               \* the transactions created by queueMessage, by id
    interrupted,      \* QsrMailTransportPrivate::interrupted
    aborted,          \* QsrMailTransportPrivate::aborted
    reachedRTS,       \* QsrMailTransportPrivate::reachedRTS
    authenticated,    \* QsrMailTransportPrivate::authenticated
    hasStartTls,      \* QsrMailTransportPrivate::hasStartTls
    selectedAuthMech, \* QsrMailTransportPrivate::selectedAuthMech
    rcptLeft,         \* recipients between the iterator rcpt and rcpts.end()
    waitingRenderer,  \* QsrMailTransportPrivate::waitingRenderer (0 = null)
    tlsLevel,         \* QsrMailTransportPrivate::tlsLevel
    authMech,         \* QsrMailTransportPrivate::authMech
    hasCreds,         \* username or password is not empty
    timerActive,      \* timer->isActive()
    sock,             \* socket->state()
    encrypted,        \* socket->isEncrypted()
    handshaking,      \* startClientEncryption() called, handshake not done
    encConn,          \* encrypted() is connected to _q_processStates
    lookup,           \* a QDnsLookup is in flight
    posted,           \* queued invocations of _q_processStates
    sendCalled,       \* sendMessages() was called
    totalMessages,    \* QsrMailTransportPrivate::totalMessages
    finishedCount,    \* emissions of QsrMailTransport::finished
    out,              \* what the last slot wrote to the socket
    last,             \* the last server response and what it caused
    hist,             \* history of the run (observations only)
    response,         \* QsrMailTransportPrivate::response between two lines
    wire,             \* byte-level view of one DATA phase (SpecData)
    envelope,         \* the recipients of one transaction (SpecRcpt)
    qp,               \* one QsrMailQpEncoder and its device (SpecQp)
    rend,             \* one QsrMailRenderer and its message (SpecTree)
    msg,              \* one QsrMailMessage and its headers (SpecHeaders)
    b64,              \* one QsrMailBase64Encoder and its device (SpecB64)
    pump              \* one QsrMailRenderer, its buffer and its device (SpecPump)

vars == <<state, queue, tx, interrupted, aborted, reachedRTS, authenticated,
          hasStartTls, selectedAuthMech, rcptLeft, waitingRenderer,
          tlsLevel, authMech, hasCreds, timerActive, sock, encrypted,
          handshaking, encConn, lookup, posted, sendCalled, totalMessages,
          finishedCount, out, last, hist, response, wire, envelope, qp, rend,
          msg, b64, pump>>

(* ---- bounds ---- *)
MaxQueue == 2       \* messages queued before sendMessages()
MaxRcpt == 2        \* distinct envelope recipients of one message
MaxChunks == 2      \* chunks the renderer produces for one message
MaxAborts == 1      \* calls of abort() on one transaction
MaxAttach == 2      \* times the transport connects to one renderer's signals
MaxBody == 5        \* bytes of a part's body (SpecData)
LineWidth == 4      \* the encoders' lineWidth, scaled down (SpecData)
MaxTo == 2          \* addresses in the To list of a message (SpecRcpt)
MaxCopy == 1        \* addresses in the Cc and in the Bcc list (SpecRcpt)
MaxInput == 3       \* bytes the encoder's device holds (SpecQp)
MaxLen == 6         \* maxlen of one readData call (SpecQp)
MaxOutput == 18     \* encoded bytes after which no more is read (SpecQp)
MaxParts == 2       \* parts of one multipart (SpecTree)
MaxDepth == 2       \* multiparts nested in each other (SpecTree)
MaxHeaders == 3     \* raw headers of a message (SpecHeaders)
MaxSource == 5      \* bytes the source of the Base64 encoder delivers (SpecB64)
MaxCap == 8         \* maxlen of one readData call of the Base64 encoder
RingSize == 2       \* mBuffer.size() of the renderer (SpecPump)
MaxScript == 3      \* chunks the renderer's FSM enqueues (SpecPump)
MaxChunkBytes == 3  \* bytes of one chunk (SpecPump)
MaxRuns == 2        \* calls of renderMessage (SpecPump)
MaxLines == 2       \* lines of one response (SpecLine)

(* ---- enumerations ---- *)
\* QsrMailTransportPrivate::State, in declaration order
States == <<"Idle", "Resolving", "Resolved", "Connecting", "Connected",
            "Banner", "SessionInit", "TlsSetup", "Encrypted",
            "EncryptedSessionInit", "SessionSetup", "Auth", "ReadyToSend",
            "MailFrom", "RcptTo", "Data", "EndOfMessage", "DataSent",
            "Closing", "Disconnected", "Finished">>

StateOrd(s) == CHOOSE i \in 1..Len(States) : States[i] = s

TlsLevels == {"TlsDisabled", "TlsOptional", "TlsRequired"}
AuthMechs == {"DisabledMech", "AutoSelectMech", "CramMd5Mech", "LoginMech",
              "PlainMech"}
TransactionErrors == {"NoError", "NoSenderError", "NoRecipientsError",
                      "ResponseError", "ConnectionError", "TlsRequiredError",
                      "ResolverError", "TimeoutError", "AbortedError",
                      "DataError"}

\* reply codes the server may send (one representative per case of the FSM)
Codes == {220, 235, 250, 334, 354, 454, 502, 550}
IsError(code) == code >= 400 /\ code < 600

\* the extension lines of an EHLO reply
NoExt == [starttls |-> FALSE, auth |-> FALSE, mechs |-> {}]
Exts == {[starttls |-> s, auth |-> a[1], mechs |-> a[2]] :
            s \in BOOLEAN,
            a \in {<<FALSE, {}>>, <<TRUE, {"LOGIN", "PLAIN"}>>}}

(* ---- the record of all fields a slot reads and writes ---- *)
Cur ==
    [state |-> state, queue |-> queue, tx |-> tx, interrupted |-> interrupted,
     aborted |-> aborted, reachedRTS |-> reachedRTS,
     authenticated |-> authenticated, hasStartTls |-> hasStartTls,
     selectedAuthMech |-> selectedAuthMech, rcptLeft |-> rcptLeft,
     waitingRenderer |-> waitingRenderer,
     tlsLevel |-> tlsLevel, authMech |-> authMech, hasCreds |-> hasCreds,
     timerActive |-> timerActive, sock |-> sock, encrypted |-> encrypted,
     handshaking |-> handshaking, encConn |-> encConn, lookup |-> lookup,
     posted |-> posted, sendCalled |-> sendCalled,
     totalMessages |-> totalMessages,
     finishedCount |-> finishedCount, out |-> <<>>, hist |-> hist,
     valid |-> FALSE]   \* response.isValid while the slot runs

\* one observable effect of a slot: a socket write or a signal emission.
\* Observed with it: up, the socket is connected; enc, it is encrypted; and
\* for the transaction tx the event is about, rdone, its renderer has emitted
\* readChannelFinished() and its buffer is drained, and term, the DATA
\* terminator of tx was written before
Ev(d, op, what, t) ==
    [op |-> op, what |-> what, tx |-> t,
     up |-> d.sock = "Connected", enc |-> d.encrypted,
     rdone |-> t # 0 /\ d.tx[t].rDone /\ ~d.tx[t].rAvail,
     term |-> t # 0 /\ d.tx[t].term]

\* observed with a write that reaches the server: mail, the transaction of the
\* MAIL FROM that opened the SMTP transaction in progress on this connection
\* (0: none), and sent, what was written for it
Sent(d, op, what, t) ==
    IF op = "write" /\ d.sock = "Connected"
    THEN IF what = "MAIL"
         THEN [d.hist EXCEPT !.mail = t, !.sent = <<what>>]
         ELSE IF what \in {"RCPT", "DATA", "PAYLOAD", "TERM"}
         THEN IF d.hist.mail # 0
              THEN [d.hist EXCEPT !.sent = Append(@, what)]
              ELSE d.hist
         ELSE [d.hist EXCEPT !.mail = 0, !.sent = <<>>]
    ELSE d.hist

Emit(d, op, what, t) ==
    [d EXCEPT !.out = Append(@, Ev(d, op, what, t)),
              !.hist = Sent(d, op, what, t)]

(* ---- QsrMailTransaction ---- *)
\* a freshly created transaction and its renderer
NewTx(m) ==
    [hasFrom |-> m.hasFrom, nRcpt |-> m.nRcpt, bad |-> m.bad,
     nChunks |-> m.nChunks,     \* chunks of the rendering (observed)
     error |-> "NoError", status |-> 0,
     finished |-> 0,
     sigConn |-> TRUE,          \* finished() -> _q_transactionFinished
     rState |-> "Idle",         \* QsrMailRenderer::mState (Body = any middle)
     rLeft |-> m.nChunks,       \* chunks not yet enqueued
     rAvail |-> FALSE,          \* bytesAvailable() > 0
     rPosted |-> FALSE,         \* a queued processStates/readFromDevice
     rErr |-> FALSE,            \* !lastError().isEmpty()
     rDone |-> FALSE,           \* readChannelFinished() was emitted
     term |-> FALSE,            \* the DATA terminator was written (observed)
     aborts |-> 0,              \* calls of abort() (observed)
     sent |-> <<>>,             \* what was written for it on the connection
                                \* on which it was delivered (observed)
     rConn |-> 0]               \* connections of the renderer to the transport

\* QsrMailRenderer::abort
RendererAbort(d, t) ==
    [d EXCEPT !.tx[t].rState = "Finished", !.tx[t].rAvail = FALSE]

\* a _q_transactionFinished that leaves the renderer connected
TransactionFinishedKeepsRenderer(d, t) ==
    LET d1 == [d EXCEPT !.tx[t].sigConn = FALSE]
        d2 == RendererAbort(d1, t)
    IN  Emit(d2, "transactionFinished", d.tx[t].error, t)

\* QsrMailTransportPrivate::_q_transactionFinished
TransactionFinished(d, t) ==
    LET d1 == [d EXCEPT !.tx[t].rConn = 0, !.tx[t].sigConn = FALSE]
        d2 == RendererAbort(d1, t)
    IN  Emit(d2, "transactionFinished", d.tx[t].error, t)

\* finalize() that emits error() whatever the error code is
FinalizeAlwaysError(d, t) ==
    LET e  == d.tx[t].error
        d1 == Emit(d, "error", e, t)
        d2 == [Emit(d1, "finished", e, t) EXCEPT
                  !.tx[t].finished = @ + 1,
                  !.tx[t].sent = IF e = "NoError" /\ d.hist.mail = t
                                 THEN d.hist.sent ELSE <<>>]
    IN  IF d.tx[t].sigConn THEN TransactionFinished(d2, t) ELSE d2

\* QsrMailTransactionPrivate::finalize, with the slot connected to finished()
Finalize(d, t) ==
    LET e  == d.tx[t].error
        d1 == IF e # "NoError"
              THEN Emit(d, "error", e, t)
              ELSE d
        d2 == [Emit(d1, "finished", e, t) EXCEPT
                  !.tx[t].finished = @ + 1,
                  !.tx[t].sent = IF e = "NoError" /\ d.hist.mail = t
                                 THEN d.hist.sent ELSE <<>>]
    IN  IF d.tx[t].sigConn THEN TransactionFinished(d2, t) ELSE d2

\* QsrMailTransactionPrivate::setError
SetError(d, t, e) == [d EXCEPT !.tx[t].error = e]

\* QsrMailTransactionPrivate::setStatus
SetStatus(d, t, code) == [d EXCEPT !.tx[t].status = code]

(* ---- QsrMailTransportPrivate helpers ---- *)
\* QsrMailTransportPrivate::write; a write reaches the server only while the
\* socket is connected
Write(d, cmd) ==
    Emit(d, "write", cmd, IF d.queue # <<>> THEN Head(d.queue) ELSE 0)

\* socket->disconnectFromHost(): nothing on an unconnected socket, else the
\* socket closes and reports UnconnectedState afterwards
DisconnectFromHost(d) ==
    IF d.sock \in {"Connecting", "Connected"}
    THEN [d EXCEPT !.sock = "Closing", !.handshaking = FALSE]
    ELSE d

\* socket->connectToHost(): refused with a warning unless unconnected
ConnectToHost(d) ==
    IF d.sock = "Unconnected"
    THEN [d EXCEPT !.sock = "Connecting", !.encrypted = FALSE,
                   !.handshaking = FALSE,
                   !.hist = [causes |-> {}, mail |-> 0, sent |-> <<>>]]
    ELSE d

(* ---- QsrMailTransportPrivate::SmtpResponse ---- *)
\* SmtpResponse::reset
NoResponse == [code |-> 0, lines |-> <<>>, isValid |-> FALSE]

DigitValue(c) ==
    CASE c = "0" -> 0 [] c = "2" -> 2 [] c = "3" -> 3 [] c = "4" -> 4
      [] c = "5" -> 5

\* the loop of SmtpResponse::append over the characters of a line, s the
\* position: three digits, then '-' or ' '; what follows is the text
RECURSIVE SmtpScan(_, _, _, _)
SmtpScan(chars, s, code, cont) ==
    IF chars = <<>> THEN [ok |-> TRUE, s |-> s, code |-> code, cont |-> cont]
    ELSE LET c == Head(chars)
         IN  IF s < 3
             THEN IF c \notin {"0", "2", "3", "4", "5"}
                  THEN [ok |-> FALSE, s |-> s, code |-> code, cont |-> cont]
                  ELSE SmtpScan(Tail(chars), s + 1,
                                code * 10 + DigitValue(c), cont)
             ELSE IF s = 3
             THEN IF c = "-" THEN SmtpScan(Tail(chars), 4, code, TRUE)
                  ELSE IF c # " "
                  THEN [ok |-> FALSE, s |-> s, code |-> code, cont |-> cont]
                  ELSE SmtpScan(Tail(chars), 4, code, cont)
             ELSE SmtpScan(Tail(chars), s, code, cont)

\* SmtpResponse::append of the line data (data.head: its characters up to
\* the text, data.text: the text): a line that does not parse leaves the
\* lines and isValid as they are
SmtpAppend(r, data) ==
    LET p == SmtpScan(data.head, 0, 0, FALSE)
    IN  IF ~p.ok \/ p.s # 4
        THEN [r EXCEPT !.code = p.code]
        ELSE [code |-> p.code, lines |-> Append(r.lines, data.text),
              isValid |-> IF p.cont THEN r.isValid ELSE TRUE]

\* what enumExtensions finds in the lines of a response
ExtOf(lines) ==
    LET has(k) == \E i \in 1..Len(lines) : lines[i] = k
    IN  [starttls |-> has("STARTTLS"),
         auth |-> has("AUTH LOGIN PLAIN"),
         mechs |-> IF has("AUTH LOGIN PLAIN") THEN {"LOGIN", "PLAIN"}
                   ELSE {}]

\* the status finalizeQueue sets: response.code while response.isValid
StatusOf(d, code) == IF d.valid THEN code ELSE 0

\* QsrMailTransportPrivate::finalizeQueue; code is response.code while
\* response.isValid, else 0
RECURSIVE FinalizeQueue(_, _, _)
FinalizeQueue(d, error, code) ==
    IF d.queue = <<>> THEN d
    ELSE LET t  == Head(d.queue)
             d1 == [d EXCEPT !.queue = Tail(@)]
             d2 == IF code # 0 THEN SetStatus(d1, t, code) ELSE d1
             d3 == SetError(d2, t, error)
         IN  FinalizeQueue(Finalize(d3, t), error, code)

\* a setupTransaction without the preflight check
SetupTransactionNoCheck(d) ==
    <<[d EXCEPT !.rcptLeft = d.tx[Head(d.queue)].nRcpt], TRUE>>

\* QsrMailTransportPrivate::setupTransaction: <<record, result>>
SetupTransaction(d) ==
    LET t  == Head(d.queue)
        d1 == [d EXCEPT !.rcptLeft = d.tx[t].nRcpt]
    IN  IF ~d.tx[t].hasFrom
        THEN <<Finalize(SetError([d1 EXCEPT !.queue = Tail(@)],
                                 t, "NoSenderError"), t), FALSE>>
        ELSE IF d.tx[t].nRcpt = 0
        THEN <<Finalize(SetError([d1 EXCEPT !.queue = Tail(@)],
                                 t, "NoRecipientsError"), t), FALSE>>
        ELSE <<d1, TRUE>>

\* QsrMailTransportPrivate::enumExtensions
EnumExtensions(d, ext) ==
    [d EXCEPT !.hasStartTls = ext.starttls,
              !.selectedAuthMech =
                  IF ~ext.auth THEN "DisabledMech"
                  ELSE IF d.authMech = "AutoSelectMech"
                       THEN IF "CRAM-MD5" \in ext.mechs THEN "CramMd5Mech"
                            ELSE IF "LOGIN" \in ext.mechs THEN "LoginMech"
                            ELSE IF "PLAIN" \in ext.mechs THEN "PlainMech"
                            ELSE "DisabledMech"
                       ELSE d.authMech]

(* ---- QsrMailTransportPrivate::_q_processStates ---- *)
\* a ReadyToSendState branch that takes the newest transaction first
RECURSIVE ReadyToSendNewestFirst(_)
ReadyToSendNewestFirst(d) ==
    IF d.queue # <<>>
    THEN LET n  == Len(d.queue)
             d0 == [d EXCEPT !.queue = <<@[n]>> \o SubSeq(@, 1, n - 1)]
             r  == SetupTransaction(d0)
         IN  IF r[2]
             THEN [Write(r[1], "MAIL") EXCEPT !.state = "MailFrom"]
             ELSE ReadyToSendNewestFirst(r[1])
    ELSE [Write(d, "QUIT") EXCEPT !.state = "Closing"]

\* the ReadyToSendState branch: the loop over setupTransaction()
RECURSIVE ReadyToSend(_)
ReadyToSend(d) ==
    IF d.queue # <<>>
    THEN LET r == SetupTransaction(d)
         IN  IF r[2]
             THEN [Write(r[1], "MAIL") EXCEPT !.state = "MailFrom"]
             ELSE ReadyToSend(r[1])
    ELSE [Write(d, "QUIT") EXCEPT !.state = "Closing"]

\* the DataState branch on 354: connect the renderer, renderMessage()
StartRenderer(d) ==
    LET t == Head(d.queue)
    IN  [d EXCEPT !.waitingRenderer = 0,
                  !.tx[t].rConn = IF @ < MaxAttach THEN @ + 1 ELSE @,
                  !.tx[t].rPosted = IF d.tx[t].rState = "Idle" THEN TRUE ELSE @,
                  !.state = "EndOfMessage"]

\* an EndOfMessageState branch that writes no terminator
EndOfMessageNoTerminator(d) ==
    LET t == Head(d.queue)
    IN  IF d.tx[t].rErr
        THEN DisconnectFromHost(
                 Finalize(SetError([d EXCEPT !.queue = Tail(@)],
                                   t, "DataError"), t))
        ELSE [d EXCEPT !.state = "DataSent"]

\* the EndOfMessageState branch
EndOfMessage(d) ==
    LET t == Head(d.queue)
    IN  IF d.tx[t].rErr
        THEN DisconnectFromHost(
                 Finalize(SetError([d EXCEPT !.queue = Tail(@)],
                                   t, "DataError"), t))
        ELSE [Write(d, "TERM") EXCEPT
                 !.state = "DataSent",
                 !.tx[t].term = @ \/ d.sock = "Connected"]

\* a DisconnectedState branch that never reconnects
DisconnectedNoReconnect(d) ==
    IF d.queue # <<>>
    THEN LET d1 == [d EXCEPT !.timerActive = FALSE]
             e  == IF d.interrupted THEN "TimeoutError"
                   ELSE IF d.aborted THEN "AbortedError"
                   ELSE "ConnectionError"
         IN  [FinalizeQueue(d1, e, 0) EXCEPT !.state = "Finished"]
    ELSE [d EXCEPT !.state = "Finished"]

\* the DisconnectedState branch up to the next state
Disconnected(d) ==
    IF d.queue # <<>>
    THEN IF d.reachedRTS
         THEN [d EXCEPT !.timerActive = TRUE, !.state = "Connecting"]
         ELSE LET d1 == [d EXCEPT !.timerActive = FALSE]
                  e  == IF d.interrupted THEN "TimeoutError"
                        ELSE IF d.aborted THEN "AbortedError"
                        ELSE "ConnectionError"
              IN  [FinalizeQueue(d1, e, 0) EXCEPT !.state = "Finished"]
    ELSE [d EXCEPT !.state = "Finished"]

\* the else branch with the per-message range starting at AuthState
UnexpectedFromAuth(d, code) ==
    IF StateOrd(d.state) >= StateOrd("Auth")
       /\ StateOrd(d.state) <= StateOrd("DataSent")
    THEN LET t  == Head(d.queue)
             d1 == [d EXCEPT !.queue = Tail(@)]
             d2 == Finalize(SetError(SetStatus(d1, t, code), t,
                                     "ResponseError"), t)
         IN  [Write(d2, "RSET") EXCEPT !.state = "ReadyToSend"]
    ELSE [Write(FinalizeQueue(d, "ResponseError", StatusOf(d, code)),
                "QUIT")
             EXCEPT !.state = "Closing"]

\* a MailFromState/RcptToState branch that writes DATA after the first 250
SendRecipientsDataAtOnce(d) ==
    [Write(d, "DATA") EXCEPT !.state = "Data"]

\* the MailFromState/RcptToState branch on 250: the next RCPT TO, or DATA
\* after the last
SendRecipients(d) ==
    IF d.rcptLeft > 0
    THEN [Write(d, "RCPT") EXCEPT !.rcptLeft = @ - 1, !.state = "RcptTo"]
    ELSE [Write(d, "DATA") EXCEPT !.state = "Data"]

\* the final else branch: a response the state does not expect
Unexpected(d, code) ==
    IF StateOrd(d.state) >= StateOrd("MailFrom")
       /\ StateOrd(d.state) <= StateOrd("DataSent")
    THEN LET t  == Head(d.queue)
             d1 == [d EXCEPT !.queue = Tail(@)]
             d2 == Finalize(SetError(SetStatus(d1, t, code), t,
                                     "ResponseError"), t)
         IN  [Write(d2, "RSET") EXCEPT !.state = "ReadyToSend"]
    ELSE [Write(FinalizeQueue(d, "ResponseError", StatusOf(d, code)),
                "QUIT")
             EXCEPT !.state = "Closing"]

\* the forever loop; code is response.code, ext the lines of the response,
\* rerr the error of the QDnsLookup that is the sender (ResolvedState only)
RECURSIVE PS(_, _, _, _)
PS(d, code, ext, rerr) ==
    CASE d.state = "Resolving" ->
            [d EXCEPT !.state = "Resolved", !.lookup = TRUE]
      [] d.state = "Resolved" ->
            IF rerr
            THEN [FinalizeQueue(d, "ResolverError", StatusOf(d, code))
                     EXCEPT !.state = "Idle"]
            ELSE PS([d EXCEPT !.state = "Connecting"], code, ext, rerr)
      [] d.state = "Connecting" -> ConnectToHost(d)
      [] d.state = "Connected" ->
            [d EXCEPT !.authenticated = FALSE, !.state = "Banner"]
      [] d.state = "Banner" /\ code = 220 ->
            [Write(d, "EHLO") EXCEPT !.state = "SessionInit"]
      [] d.state = "SessionInit" /\ code > 499 /\ code < 510 ->
            [Write(d, "HELO") EXCEPT !.state = "SessionSetup"]
      [] d.state = "SessionInit" /\ code = 250 ->
            LET d1 == EnumExtensions(d, ext)
            IN  IF d1.tlsLevel = "TlsOptional" /\ d1.hasStartTls
                THEN [Write(d1, "STARTTLS") EXCEPT !.state = "TlsSetup"]
                ELSE IF d1.tlsLevel = "TlsRequired"
                THEN IF d1.hasStartTls
                     THEN [Write(d1, "STARTTLS") EXCEPT !.state = "TlsSetup"]
                     ELSE [Write(FinalizeQueue(d1, "TlsRequiredError",
                                                StatusOf(d1, code)),
                                 "QUIT") EXCEPT !.state = "Closing"]
                ELSE PS([d1 EXCEPT !.state = "SessionSetup"], code, ext, rerr)
      [] d.state = "TlsSetup" /\ code = 220 ->
            [d EXCEPT !.encConn = TRUE, !.handshaking = (d.sock = "Connected"),
                      !.state = "Encrypted"]
      [] d.state = "TlsSetup" /\ code = 454 ->
            IF d.tlsLevel = "TlsRequired"
            THEN [Write(FinalizeQueue(d, "TlsRequiredError", StatusOf(d, code)),
                        "QUIT")
                     EXCEPT !.state = "Closing"]
            ELSE PS([d EXCEPT !.state = "SessionSetup"], code, ext, rerr)
      [] d.state = "Encrypted" ->
            [Write([d EXCEPT !.encConn = FALSE], "EHLO")
                EXCEPT !.state = "EncryptedSessionInit"]
      [] d.state \in {"EncryptedSessionInit", "SessionSetup"} /\ code = 250 ->
            LET d1 == IF d.state = "EncryptedSessionInit"
                      THEN EnumExtensions(d, ext) ELSE d
            IN  IF d1.selectedAuthMech # "DisabledMech" /\ d1.hasCreds
                THEN LET d2 == IF d1.selectedAuthMech \in
                                   {"CramMd5Mech", "LoginMech", "PlainMech"}
                               THEN Write(d1, "AUTH") ELSE d1
                     IN  [d2 EXCEPT !.state = "Auth"]
                ELSE PS([d1 EXCEPT !.state = "ReadyToSend"], code, ext, rerr)
      [] d.state = "Auth" /\ code = 334 -> Write(d, "AUTHRESPONSE")
      [] d.state = "Auth" /\ code = 235 ->
            PS([d EXCEPT !.authenticated = TRUE, !.state = "ReadyToSend"],
               code, ext, rerr)
      [] d.state = "ReadyToSend" ->
            ReadyToSend([d EXCEPT !.reachedRTS = TRUE])
      [] d.state \in {"MailFrom", "RcptTo"} /\ code = 250 ->
            SendRecipients(d)
      [] d.state = "Data" /\ code = 354 -> StartRenderer(d)
      [] d.state = "EndOfMessage" -> EndOfMessage(d)
      [] d.state = "DataSent" /\ code = 250 ->
            LET t  == Head(d.queue)
                d1 == [d EXCEPT !.queue = Tail(@)]
                d2 == Finalize(SetStatus(SetError(d1, t, "NoError"), t, code),
                               t)
            IN  PS([d2 EXCEPT !.state = "ReadyToSend"], code, ext, rerr)
      [] d.state = "Closing" -> DisconnectFromHost(d)
      [] d.state = "Disconnected" -> PS(Disconnected(d), code, ext, rerr)
      [] d.state = "Finished" ->
            [Emit(d, "transportFinished", "", 0)
                EXCEPT !.finishedCount = @ + 1]
      [] OTHER -> Unexpected(d, code)

\* QsrMailTransportPrivate::_q_processStates: restart a running timer, loop
ProcessStates(d, code, ext, rerr) == PS(d, code, ext, rerr)

(* ---- renderer coupling ---- *)
\* QsrMailRenderer::advanceDataPointer up to the write cursor: the buffer is
\* drained and the next processStates/readFromDevice is queued
AdvanceDataPointer(d, r) ==
    [d EXCEPT !.tx[r].rAvail = FALSE, !.tx[r].rPosted = TRUE]

\* QsrMailTransportPrivate::_q_writeMessageData.  sender is q->sender();
\* room says what the socket's write buffer allows: "full" (maxSize <= 0 at
\* once) or "free"
WriteMessageData(d, sender, room) ==
    LET r0 == d.waitingRenderer
        d1 == [d EXCEPT !.waitingRenderer = 0]
    IN  IF r0 # 0 /\ (d.queue = <<>> \/ r0 # Head(d.queue))
        THEN d1
        ELSE LET r == IF r0 = 0 THEN sender ELSE r0
             IN  IF room = "full"
                 THEN [d1 EXCEPT !.waitingRenderer = r]
                 ELSE IF ~d1.tx[r].rAvail
                 THEN d1
                 ELSE AdvanceDataPointer(Emit(d1, "write", "PAYLOAD", r), r)

\* a signal of renderer t that is connected n times to _q_processStates:
\* the slots run in turn while the connection exists
RECURSIVE DeliverPS(_, _, _)
DeliverPS(d, t, n) ==
    IF n = 0 \/ d.tx[t].rConn = 0 THEN d
    ELSE DeliverPS(ProcessStates(d, response.code, ExtOf(response.lines),
                                 FALSE), t, n - 1)

\* readyRead() of renderer t, connected n times to _q_writeMessageData
RECURSIVE DeliverWMD(_, _, _, _)
DeliverWMD(d, t, n, room) ==
    IF n = 0 \/ d.tx[t].rConn = 0 THEN d
    ELSE DeliverWMD(WriteMessageData(d, t, room), t, n - 1, room)

\* one queued step of renderer t (QsrMailRenderer::processStates and the
\* readFromDevice it queues): the next chunk, an error, or the end
RenderStep(d, t, room) ==
    LET d0 == [d EXCEPT !.tx[t].rPosted = FALSE]
        x  == d.tx[t]
    IN  IF x.rState = "Finished"
        THEN DeliverPS([d0 EXCEPT !.tx[t].rDone = TRUE], t, x.rConn)
        ELSE LET next == IF x.rLeft <= 1 THEN "Finished" ELSE "Body"
             IN  IF x.bad /\ x.rLeft <= 1
                 THEN LET d1 == [d0 EXCEPT !.tx[t].rErr = TRUE]
                          d2 == DeliverPS(d1, t, x.rConn)
                      IN  [d2 EXCEPT !.tx[t].rState = next]
                 ELSE LET d1 == [d0 EXCEPT !.tx[t].rLeft = @ - 1,
                                           !.tx[t].rState = next,
                                           !.tx[t].rAvail = TRUE]
                      IN  DeliverWMD(d1, t, x.rConn, room)

(* ---- the state machine ---- *)
\* the messages a caller may queue: sender present or not, number of distinct
\* recipients, number of chunks, and whether the body device cannot be read
Messages ==
    {[hasFrom |-> TRUE, nRcpt |-> 1, nChunks |-> 1, bad |-> FALSE],
     [hasFrom |-> TRUE, nRcpt |-> 1, nChunks |-> 1, bad |-> TRUE],
     [hasFrom |-> FALSE, nRcpt |-> 1, nChunks |-> 1, bad |-> FALSE],
     [hasFrom |-> TRUE, nRcpt |-> 0, nChunks |-> 1, bad |-> FALSE]}

\* one deliverable message
GoodMessages ==
    {[hasFrom |-> TRUE, nRcpt |-> 1, nChunks |-> 1, bad |-> FALSE]}

\* messages of several chunks and recipients, readable or not
LongMessages ==
    {[hasFrom |-> TRUE, nRcpt |-> MaxRcpt, nChunks |-> MaxChunks,
      bad |-> FALSE],
     [hasFrom |-> TRUE, nRcpt |-> 1, nChunks |-> MaxChunks, bad |-> TRUE]}

Rooms == {"full", "free"}

NoLast == [slot |-> "other", code |-> 0]

\* the slot that ran last; of a response, the reply code if it is 4xx/5xx
Slot(name, code) ==
    IF name \in {"response", "posted", "timeout", "abort", "renderer",
                 "continued", "discarded"}
    THEN [slot |-> name, code |-> IF IsError(code) THEN code ELSE 0]
    ELSE NoLast

\* no queued invocation is pending: the event loop polls socket and timer
NoPosted == posted = 0 /\ \A t \in 1..Len(tx) : ~tx[t].rPosted

CommitTransport(d, l) ==
    /\ state' = d.state
    /\ queue' = d.queue
    /\ tx' = d.tx
    /\ interrupted' = d.interrupted
    /\ aborted' = d.aborted
    /\ reachedRTS' = d.reachedRTS
    /\ authenticated' = d.authenticated
    /\ hasStartTls' = d.hasStartTls
    /\ selectedAuthMech' = d.selectedAuthMech
    /\ rcptLeft' = d.rcptLeft
    /\ waitingRenderer' = d.waitingRenderer
    /\ tlsLevel' = d.tlsLevel
    /\ authMech' = d.authMech
    /\ hasCreds' = d.hasCreds
    /\ timerActive' = d.timerActive
    /\ sock' = d.sock
    /\ encrypted' = d.encrypted
    /\ handshaking' = d.handshaking
    /\ encConn' = d.encConn
    /\ lookup' = d.lookup
    /\ posted' = d.posted
    /\ sendCalled' = d.sendCalled
    /\ totalMessages' = d.totalMessages
    /\ finishedCount' = d.finishedCount
    /\ out' = d.out
    /\ hist' = d.hist
    /\ last' = l
    /\ UNCHANGED <<wire, envelope, qp, rend, msg, b64, pump>>

\* a slot that leaves the response as it is: between two responses it is
\* reset
Commit(d, l) == CommitTransport(d, l) /\ UNCHANGED response

\* why the socket was closed since the last connectToHost()
NoHist == [causes |-> {}, mail |-> 0, sent |-> <<>>]

\* the transport after construction
InitTransport ==
    /\ state = "Idle"
    /\ queue = <<>>
    /\ tx = <<>>
    /\ interrupted = FALSE
    /\ aborted = FALSE
    /\ reachedRTS = FALSE
    /\ authenticated = FALSE
    /\ hasStartTls = FALSE
    /\ selectedAuthMech = "DisabledMech"
    /\ rcptLeft = 0
    /\ waitingRenderer = 0
    /\ tlsLevel = "TlsOptional"
    /\ authMech = "AutoSelectMech"
    /\ hasCreds = FALSE
    /\ timerActive = FALSE
    /\ sock = "Unconnected"
    /\ encrypted = FALSE
    /\ handshaking = FALSE
    /\ encConn = FALSE
    /\ lookup = FALSE
    /\ posted = 0
    /\ sendCalled = FALSE
    /\ totalMessages = 0
    /\ finishedCount = 0
    /\ out = <<>>
    /\ last = NoLast
    /\ hist = NoHist
    /\ response = NoResponse

\* no transaction is set up
NoEnvelope == [phase |-> "none"]

\* no encoder is open
NoEncoder == [open |-> FALSE]

\* no renderer was created
NoRenderer == [mState |-> "none"]

\* no message is cooked
NoMessage == [cooked |-> FALSE]

\* no Base64 encoder is open
NoBase64 == [open |-> FALSE]

\* no renderer pumps data
NoPump == [mState |-> "none"]

Init ==
    /\ InitTransport
    /\ wire = <<>>
    /\ envelope = NoEnvelope
    /\ qp = NoEncoder
    /\ rend = NoRenderer
    /\ msg = NoMessage
    /\ b64 = NoBase64
    /\ pump = NoPump

\* QsrMailTransport::queueMessage
QueueMessageOf(kinds) ==
    /\ ~sendCalled
    /\ Len(tx) < MaxQueue
    /\ \E m \in kinds :
         Commit([Cur EXCEPT !.tx = Append(@, NewTx(m)),
                            !.queue = Append(@, Len(tx) + 1)],
                Slot("queueMessage", 0))

QueueMessage == QueueMessageOf(Messages)
QueueGood == QueueMessageOf(GoodMessages)
QueueLong == QueueMessageOf(LongMessages)

\* QsrMailTransport::setTlsLevel
SetTlsLevel ==
    /\ ~sendCalled
    /\ \E l \in TlsLevels :
         Commit([Cur EXCEPT !.tlsLevel = l], Slot("setTlsLevel", 0))

\* QsrMailTransport::setAuthMech
SetAuthMech ==
    /\ ~sendCalled
    /\ \E m \in {"DisabledMech", "AutoSelectMech"} :
         Commit([Cur EXCEPT !.authMech = m], Slot("setAuthMech", 0))

\* QsrMailTransport::setUser / setPassword
SetUser ==
    /\ ~sendCalled
    /\ \E c \in BOOLEAN :
         Commit([Cur EXCEPT !.hasCreds = c], Slot("setUser", 0))

\* QsrMailTransportPrivate::sendMessagesImpl
SendMessagesImpl(d, initState) ==
    IF d.queue = <<>>
    THEN [Emit(d, "transportFinished", "", 0)
             EXCEPT !.finishedCount = @ + 1, !.sendCalled = TRUE]
    ELSE [d EXCEPT !.state = initState,
                   !.totalMessages = Len(d.queue),
                   !.interrupted = FALSE, !.aborted = FALSE,
                   !.reachedRTS = FALSE, !.authenticated = FALSE,
                   !.timerActive = TRUE,
                   !.posted = @ + 1, !.sendCalled = TRUE]

\* QsrMailTransport::sendMessages(hostname) and sendMessages(address)
SendMessages ==
    /\ ~sendCalled
    /\ \E init \in {"Resolving", "Connected"} :
         Commit(SendMessagesImpl(Cur, init), Slot("sendMessages", 0))

\* a queued invocation of _q_processStates is dispatched
Posted ==
    /\ posted > 0
    /\ Commit(ProcessStates([Cur EXCEPT !.posted = @ - 1], response.code,
                            ExtOf(response.lines), FALSE),
              Slot("posted", 0))

\* QDnsLookup::finished -> _q_processStates; errs: may the lookup fail
ResolverFinishedOf(errs) ==
    /\ lookup
    /\ NoPosted
    /\ \E rerr \in errs :
         Commit(ProcessStates([Cur EXCEPT !.lookup = FALSE], response.code,
                              ExtOf(response.lines), rerr),
                Slot("resolver", 0))

ResolverFinished == ResolverFinishedOf(BOOLEAN)

\* the host name resolves
ResolverAnswers == ResolverFinishedOf({FALSE})

\* QsrMailTransportPrivate::_q_stateChanged
StateChanged(d, socketState) ==
    IF socketState \in {"Connected", "Unconnected"}
    THEN [d EXCEPT !.state = IF socketState = "Connected" THEN "Connected"
                             ELSE "Disconnected",
                   !.hist.mail = 0, !.hist.sent = <<>>,
                   !.posted = @ + 1]
    ELSE d

\* the socket reports that the connection is established
SocketConnected ==
    /\ sock = "Connecting"
    /\ NoPosted
    /\ Commit(StateChanged([Cur EXCEPT !.sock = "Connected"], "Connected"),
              Slot("connected", 0))

\* the connection attempt fails
ConnectRefused ==
    /\ sock = "Connecting"
    /\ NoPosted
    /\ Commit(StateChanged([Cur EXCEPT !.sock = "Unconnected",
                                       !.hist.causes = @ \cup {"refused"}],
                           "Unconnected"),
              Slot("refused", 0))

\* the server or the network drops the connection (also: handshake failure)
ServerDrop ==
    /\ sock = "Connected"
    /\ NoPosted
    /\ Commit(StateChanged([Cur EXCEPT !.sock = "Unconnected",
                                       !.encrypted = FALSE,
                                       !.handshaking = FALSE],
                           "Unconnected"),
              Slot("drop", 0))

\* a disconnectFromHost() of the transport completes
SocketClosed ==
    /\ sock = "Closing"
    /\ Commit(StateChanged([Cur EXCEPT !.sock = "Unconnected",
                                       !.encrypted = FALSE],
                           "Unconnected"),
              Slot("closed", 0))

\* QsrMailTransportPrivate::_q_socketReadyRead with one complete response
ServerResponseWith(codes, exts) ==
    /\ sock = "Connected"
    /\ ~handshaking
    /\ NoPosted
    /\ \E code \in codes, ext \in exts :
         /\ (code # 250 => ext = NoExt)
         /\ Commit(ProcessStates([Cur EXCEPT !.valid = TRUE], code, ext,
                                 FALSE),
                   Slot("response", code))

ServerResponseOf(codes) == ServerResponseWith(codes, Exts)

\* any reply at any time
ServerResponse == ServerResponseOf(Codes)

\* a server that accepts or rejects, without TLS and AUTH dialogue
ServerReply == ServerResponseOf({220, 250, 354, 550})

\* the states in which the FSM has a command (or the connection) pending
AwaitingReply == {"Banner", "SessionInit", "MailFrom", "RcptTo", "Data",
                  "DataSent", "Closing"}

\* what a server that accepts everything replies in a state of the FSM
CoopCode(s) ==
    CASE s = "Banner" -> 220
      [] s = "Data" -> 354
      [] s = "Closing" -> 221
      [] OTHER -> 250

\* a cooperative server without STARTTLS and AUTH: one reply per command
CoopServer ==
    /\ state \in AwaitingReply
    /\ ServerResponseWith({CoopCode(state)}, {NoExt})

\* QSslSocket::encrypted -> _q_processStates
Encrypted ==
    /\ sock = "Connected"
    /\ handshaking
    /\ NoPosted
    /\ LET d == [Cur EXCEPT !.encrypted = TRUE, !.handshaking = FALSE]
       IN  Commit(IF encConn
                  THEN ProcessStates(d, response.code, ExtOf(response.lines),
                                     FALSE)
                  ELSE d,
                  Slot("encrypted", 0))

\* QsrMailTransportPrivate::_q_bytesWritten / _q_encryptedBytesWritten; a
\* closing socket still drains its write buffer
BytesWritten ==
    /\ sock \in {"Connected", "Closing"}
    /\ NoPosted
    /\ waitingRenderer # 0
    /\ \E room \in Rooms :
         Commit(WriteMessageData(Cur, 0, room), Slot("bytesWritten", 0))

\* QsrMailTransportPrivate::_q_timeout (the timer is single-shot)
Timeout ==
    /\ timerActive
    /\ NoPosted
    /\ Commit(DisconnectFromHost(
                  [Cur EXCEPT !.timerActive = FALSE, !.interrupted = TRUE,
                              !.hist.causes = @ \cup {"timeout"}]),
              Slot("timeout", 0))

\* QsrMailTransport::abort
TransportAbort ==
    /\ sendCalled
    /\ ~aborted
    /\ Commit(DisconnectFromHost(
                  [Cur EXCEPT !.aborted = TRUE,
                              !.hist.causes = @ \cup {"abort"}]),
              Slot("abort", 0))

\* QsrMailTransaction::abort
TransactionAbort ==
    /\ totalMessages > 0
    /\ \E t \in 1..Len(tx) :
         /\ tx[t].aborts < MaxAborts
         /\ Commit(Finalize(SetError([Cur EXCEPT !.tx[t].aborts = @ + 1],
                                     t, "AbortedError"), t),
                   Slot("transactionAbort", 0))

\* a queued processStates/readFromDevice of a renderer is dispatched
RendererStepIn(rooms) ==
    \E t \in 1..Len(tx) :
      /\ tx[t].rPosted
      /\ \E room \in rooms :
           Commit(RenderStep(Cur, t, room), Slot("renderer", 0))

\* the socket's write buffer always has room
RendererStep == RendererStepIn({"free"})

\* the socket's write buffer may be full
RendererStepSlow == RendererStepIn(Rooms)

(* ---- any server, any configuration, connection loss ---- *)
Next ==
    \/ QueueMessage
    \/ SetTlsLevel
    \/ SetUser
    \/ SendMessages
    \/ Posted
    \/ ResolverFinished
    \/ SocketConnected
    \/ ConnectRefused
    \/ ServerDrop
    \/ SocketClosed
    \/ ServerResponse
    \/ Encrypted
    \/ RendererStep

Spec == Init /\ [][Next]_vars

(* ---- timer expiry and QsrMailTransport::abort ---- *)
NextFault ==
    \/ QueueGood
    \/ SendMessages
    \/ Posted
    \/ ResolverFinished
    \/ SocketConnected
    \/ ConnectRefused
    \/ ServerDrop
    \/ SocketClosed
    \/ ServerResponse
    \/ Encrypted
    \/ RendererStep
    \/ Timeout
    \/ TransportAbort

SpecFault == Init /\ [][NextFault]_vars

(* ---- QsrMailTransaction::abort ---- *)
NextAbort ==
    \/ QueueGood
    \/ SendMessages
    \/ Posted
    \/ ResolverFinished
    \/ SocketConnected
    \/ SocketClosed
    \/ ServerResponse
    \/ Encrypted
    \/ RendererStep
    \/ TransactionAbort

SpecAbort == Init /\ [][NextAbort]_vars

(* ---- a socket whose write buffer fills ---- *)
NextRender ==
    \/ QueueLong
    \/ SendMessages
    \/ Posted
    \/ ResolverFinished
    \/ SocketConnected
    \/ SocketClosed
    \/ ServerResponse
    \/ Encrypted
    \/ RendererStepSlow
    \/ BytesWritten

SpecRender == Init /\ [][NextRender]_vars

(* ---- the fair event loop ---- *)
NextFair ==
    \/ QueueGood
    \/ SendMessages
    \/ Posted
    \/ ResolverFinished
    \/ SocketConnected
    \/ ConnectRefused
    \/ SocketClosed
    \/ ServerReply
    \/ Encrypted
    \/ RendererStep
    \/ Timeout

\* the event loop takes one queued invocation of _q_processStates from its
\* queue: the steps of Posted, and no others
Dispatched == posted > 0 /\ posted' = posted - 1

\* queued invocations are dispatched, the resolver answers, a connection
\* attempt succeeds or fails, a closing socket closes, and a running timer
\* fires; the server and the caller owe nothing
FairSpec ==
    /\ Init
    /\ [][NextFair]_vars
    /\ WF_posted(Dispatched)
    /\ WF_vars(RendererStep)
    /\ WF_vars(ResolverFinished)
    /\ WF_vars(SocketConnected \/ ConnectRefused)
    /\ WF_vars(SocketClosed)
    /\ WF_vars(Timeout)

(* ---- a cooperative server without STARTTLS and AUTH ---- *)
NextPlain ==
    \/ QueueGood
    \/ SetTlsLevel
    \/ SetUser
    \/ SendMessages
    \/ Posted
    \/ ResolverAnswers
    \/ SocketConnected
    \/ SocketClosed
    \/ CoopServer
    \/ RendererStep

SpecPlain == Init /\ [][NextPlain]_vars

(* ---- the lines of the server, one at a time ---- *)
\* the lines a server sends: head the characters up to the text, text the
\* rest of the line; the last five are not framed as three digits and a
\* separator
ServerLines ==
    {[head |-> <<"2", "2", "0", " ">>, text |-> ""],
     [head |-> <<"2", "5", "0", " ">>, text |-> ""],
     [head |-> <<"2", "5", "0", "-">>, text |-> "STARTTLS"],
     [head |-> <<"3", "5", "4", " ">>, text |-> ""],
     [head |-> <<"5", "5", "0", " ">>, text |-> ""],
     [head |-> <<>>, text |-> ""],
     [head |-> <<"2", "5", "0">>, text |-> ""],
     [head |-> <<"2", "5", "0", "x">>, text |-> ""],
     [head |-> <<"x", "5", "0", " ">>, text |-> ""],
     [head |-> <<"2", "5", " ">>, text |-> ""]}

\* QsrMailTransportPrivate::_q_socketReadyRead with one line to read
SocketReadyRead ==
    /\ sock = "Connected"
    /\ ~handshaking
    /\ NoPosted
    /\ \E data \in ServerLines :
         LET r == SmtpAppend(response, data)
         IN  /\ Len(r.lines) <= MaxLines
             /\ IF r.isValid
                THEN /\ CommitTransport(
                            ProcessStates([Cur EXCEPT !.valid = TRUE], r.code,
                                          ExtOf(r.lines), FALSE),
                            Slot("response", r.code))
                     /\ response' = NoResponse
                ELSE /\ CommitTransport(
                            Cur,
                            Slot(IF r.lines = response.lines
                                 THEN "discarded" ELSE "continued", 0))
                     /\ response' = r

NextLine ==
    \/ QueueGood
    \/ SendMessages
    \/ Posted
    \/ ResolverAnswers
    \/ SocketConnected
    \/ SocketClosed
    \/ SocketReadyRead
    \/ Encrypted
    \/ RendererStep
    \/ Timeout

SpecLine == Init /\ [][NextLine]_vars

(* ---- the bytes of one DATA phase ---- *)
tvars == <<state, queue, tx, interrupted, aborted, reachedRTS, authenticated,
           hasStartTls, selectedAuthMech, rcptLeft, waitingRenderer,
           tlsLevel, authMech, hasCreds, timerActive, sock, encrypted,
           handshaking, encConn, lookup, posted, sendCalled, totalMessages,
           finishedCount, out, last, hist, response>>

CR == "\r"
LF == "\n"
Bytes == {"a", ".", CR, LF}
Encoders == {"raw", "passthrough", "base64", "qp"}

\* all byte sequences of length up to n
RECURSIVE Seqs(_)
Seqs(n) ==
    IF n = 0 THEN {<<>>}
    ELSE LET shorter == Seqs(n - 1)
         IN  shorter \cup {Append(b, c) : b \in shorter, c \in Bytes}

\* the two hex digits of a byte
Hex(c) ==
    CASE c = "." -> <<"2", "E">>
      [] c = CR -> <<"0", "D">>
      [] c = LF -> <<"0", "A">>
      [] OTHER -> <<"6", "1">>

\* one pass of the loop of QsrMailQpEncoderPrivate::readDataImpl (text mode
\* off, no TAB or SPC in the input): <<output, input left, lineChars>>
QpLoop(src, lineChars) ==
    IF Head(src) = CR /\ Len(src) = 1
    THEN <<<<>>, src, lineChars>>
    ELSE IF Head(src) = CR /\ src[2] = LF
    THEN <<<<CR, LF>>, Tail(Tail(src)), 0>>
    ELSE LET c == IF Head(src) = CR THEN src[2] ELSE Head(src)
             forceEncoding == lineChars = 0 /\ c = "."
             isPrintable == ~forceEncoding /\ c \in {"a", "."}
             break == lineChars + (IF isPrintable THEN 2 ELSE 4) >= LineWidth
             soft == IF break THEN <<"=", CR, LF>> ELSE <<>>
             lc == IF break THEN 0 ELSE lineChars
         IN  IF isPrintable
             THEN <<soft \o <<c>>, Tail(src), lc + 1>>
             ELSE <<soft \o <<"=">> \o Hex(c), Tail(src), lc + 3>>

\* QsrMailBase64EncoderPrivate::put: <<output, lineChars>>
Put(c, lineChars) ==
    IF LineWidth > 0 /\ lineChars + 1 >= LineWidth
    THEN <<<<c, CR, LF>>, 0>>
    ELSE <<<<c>>, lineChars + 1>>

\* QsrMailBase64EncoderPrivate::putQ for a quantum of qSize bytes ("b" is
\* any character of base64dict): <<output, lineChars>>
PutQ(qSize, lineChars) ==
    LET pad == 3 - qSize
        p1 == Put("b", lineChars)
        p2 == Put("b", p1[2])
        p3 == Put(IF pad = 2 THEN "=" ELSE "b", p2[2])
        p4 == Put(IF pad >= 1 THEN "=" ELSE "b", p3[2])
    IN  <<p1[1] \o p2[1] \o p3[1] \o p4[1], p4[2]>>

\* the DATA phase of a part with the given encoder and body: the renderer
\* has enqueued the header block, which ends with an empty line
NewWire(enc, body) ==
    [enc |-> enc, src |-> body, lineChars |-> 0,
     buf |-> <<CR, LF>>,       \* QsrMailRenderer::mBuffer, not yet read
     sent |-> <<>>,            \* written to the socket since the 354 reply
     size |-> 0,               \* size of the last socket->write
     crlfState |-> 0, done |-> FALSE, term |-> FALSE]

InitData ==
    /\ InitTransport
    \* crlfState is reset per session only: it starts with the value the
    \* message before left behind
    /\ wire \in {[NewWire(e, b) EXCEPT !.crlfState = c] :
                    e \in Encoders, b \in Seqs(MaxBody), c \in 0..2}
    /\ envelope = NoEnvelope
    /\ qp = NoEncoder
    /\ rend = NoRenderer
    /\ msg = NoMessage
    /\ b64 = NoBase64
    /\ pump = NoPump

\* SimpleBodyState, and MimePartBodyState with the PassthroughEncoder:
\* enqueue(body)
EnqueueBody ==
    /\ wire.enc \in {"raw", "passthrough"}
    /\ ~wire.done
    /\ wire' = [wire EXCEPT !.buf = @ \o wire.src, !.src = <<>>,
                             !.done = TRUE]
    /\ UNCHANGED <<tvars, envelope, qp, rend, msg, b64, pump>>

\* readFromDevice on a QsrMailQpEncoder
ReadQp ==
    /\ wire.enc = "qp"
    /\ ~wire.done
    /\ IF wire.src = <<>>
       THEN wire' = [wire EXCEPT !.done = TRUE]
       ELSE LET r == QpLoop(wire.src, wire.lineChars)
            IN  wire' = [wire EXCEPT !.buf = @ \o r[1], !.src = r[2],
                                     !.lineChars = r[3]]
    /\ UNCHANGED <<tvars, envelope, qp, rend, msg, b64, pump>>

\* readFromDevice on a QsrMailBase64Encoder: one quantum
ReadBase64 ==
    /\ wire.enc = "base64"
    /\ ~wire.done
    /\ IF wire.src = <<>>
       THEN wire' = [wire EXCEPT !.done = TRUE]
       ELSE LET n == IF Len(wire.src) < 3 THEN Len(wire.src) ELSE 3
                r == PutQ(n, wire.lineChars)
            IN  wire' = [wire EXCEPT
                            !.buf = @ \o r[1],
                            !.src = SubSeq(@, n + 1, Len(@)),
                            !.lineChars = r[2]]
    /\ UNCHANGED <<tvars, envelope, qp, rend, msg, b64, pump>>

\* a CRLF detection that looks at the bytes of one write only
CrlfStateOfWrite(old, data) ==
    LET size == Len(data)
    IN  IF size > 1 /\ data[size - 1] = CR /\ data[size] = LF THEN 2
        ELSE IF data[size] = CR THEN 1
        ELSE 0

\* the CRLF detection of _q_writeMessageData for the bytes data
CrlfState(old, data) ==
    LET size == Len(data)
    IN  IF size = 1
        THEN IF old = 1 /\ data[1] = LF THEN 2
             ELSE IF data[1] = CR THEN 1
             ELSE 0
        ELSE IF data[size - 1] = CR /\ data[size] = LF THEN 2
             ELSE IF data[size] = CR THEN 1
             ELSE 0

\* one pass of the loop of _q_writeMessageData: size bytes fit the socket
WriteData ==
    /\ wire.buf # <<>>
    /\ ~wire.term
    /\ \E size \in 1..Len(wire.buf) :
         LET data == SubSeq(wire.buf, 1, size)
         IN  wire' = [wire EXCEPT
                         !.crlfState = CrlfState(@, data),
                         !.size = size,
                         !.sent = @ \o data,
                         !.buf = SubSeq(@, size + 1, Len(@))]
    /\ UNCHANGED <<tvars, envelope, qp, rend, msg, b64, pump>>

\* the EndOfMessageState branch once the renderer has finished: CRLF if
\* the payload does not end with one, then the terminator
WriteTerminator ==
    /\ wire.done
    /\ wire.buf = <<>>
    /\ ~wire.term
    /\ wire' = [wire EXCEPT
                    !.sent = IF wire.crlfState # 2 THEN @ \o <<CR, LF>>
                             ELSE @,
                    !.term = TRUE]
    /\ UNCHANGED <<tvars, envelope, qp, rend, msg, b64, pump>>

NextData ==
    \/ EnqueueBody
    \/ ReadQp
    \/ ReadBase64
    \/ WriteData
    \/ WriteTerminator

SpecData == InitData /\ [][NextData]_vars

(* ---- the envelope recipients of one transaction ---- *)
\* QsrMailAddress values: a display name (or none) and an address
Addresses == {[name |-> n, addr |-> a] : n \in {"", "N"},
                                         a \in {"a@x", "b@x"}}

\* QsrMailAddress::toByteArray of a valid address whose display name needs
\* no encoding
ToByteArray(a) ==
    IF a.name = "" THEN a.addr
    ELSE a.name \o " <" \o a.addr \o ">"

\* all lists of at most n addresses
RECURSIVE AddressLists(_)
AddressLists(n) ==
    IF n = 0 THEN {<<>>}
    ELSE LET shorter == AddressLists(n - 1)
         IN  shorter \cup {Append(l, a) : l \in shorter, a \in Addresses}

\* rcpts after the insert loop of setupTransaction, without the last entry
RcptSetButLast(recipients) ==
    {ToByteArray(recipients[i]) : i \in 1..(Len(recipients) - 1)}

\* rcpts after the insert loop of setupTransaction
RcptSet(recipients) ==
    {ToByteArray(recipients[i]) : i \in 1..Len(recipients)}

\* the orders in which an iterator may traverse the QSet
Orders(set) ==
    {o \in [1..Cardinality(set) -> set] :
        \A i, j \in 1..Cardinality(set) : i # j => o[i] # o[j]}

\* a queued message with its To, Cc and Bcc lists
InitRcpt ==
    /\ InitTransport
    /\ wire = <<>>
    /\ envelope \in {[phase |-> "queued", to |-> t, cc |-> c, bcc |-> b,
                       rcpts |-> {}, order |-> <<>>, rcpt |-> 1,
                       sent |-> <<>>] :
                          t \in AddressLists(MaxTo),
                          c \in AddressLists(MaxCopy),
                          b \in AddressLists(MaxCopy)}
    /\ qp = NoEncoder
    /\ rend = NoRenderer
    /\ msg = NoMessage
    /\ b64 = NoBase64
    /\ pump = NoPump

\* setupTransaction: rcpts is filled, rcpt = rcpts.constBegin(); order is
\* the iteration order of the QSet, which the hash function determines
SetupRecipients ==
    /\ envelope.phase = "queued"
    /\ LET set == RcptSet(envelope.to \o envelope.cc \o envelope.bcc)
       IN  \E o \in Orders(set) :
             envelope' = [envelope EXCEPT !.rcpts = set, !.order = o,
                                          !.rcpt = 1, !.phase = "mail"]
    /\ UNCHANGED <<tvars, wire, qp, rend, msg, b64, pump>>

\* the MailFromState/RcptToState branch on 250 while rcpt # rcpts.end()
WriteRcpt ==
    /\ envelope.phase = "mail"
    /\ envelope.rcpt <= Len(envelope.order)
    /\ envelope' = [envelope EXCEPT
                        !.sent = Append(@, envelope.order[envelope.rcpt]),
                        !.rcpt = @ + 1]
    /\ UNCHANGED <<tvars, wire, qp, rend, msg, b64, pump>>

\* the same branch at rcpts.end(): DATA is written
WriteDataCommand ==
    /\ envelope.phase = "mail"
    /\ envelope.rcpt > Len(envelope.order)
    /\ envelope' = [envelope EXCEPT !.phase = "data"]
    /\ UNCHANGED <<tvars, wire, qp, rend, msg, b64, pump>>

NextRcpt ==
    \/ SetupRecipients
    \/ WriteRcpt
    \/ WriteDataCommand

SpecRcpt == InitRcpt /\ [][NextRcpt]_vars

(* ---- QsrMailQpEncoder ---- *)
SPC == " "

\* the bytes of the device: a printable character, '.', SPC (TAB is treated
\* alike), '=' (which is never printable), CR and LF
QpBytes == {"a", ".", SPC, "=", CR, LF}

\* the line widths an encoder is configured with (76 is the default)
LineWidths == {0, 4, 6, 76}

\* all sequences of at most n bytes of the device
RECURSIVE QpInputs(_)
QpInputs(n) ==
    IF n = 0 THEN {<<>>}
    ELSE LET shorter == QpInputs(n - 1)
         IN  shorter \cup {Append(b, c) : b \in shorter, c \in QpBytes}

\* qpdict[c >> 4], qpdict[c & 0x0f]
QpHex(c) ==
    CASE c = "." -> <<"2", "E">>
      [] c = SPC -> <<"2", "0">>
      [] c = "=" -> <<"3", "D">>
      [] c = CR -> <<"0", "D">>
      [] c = LF -> <<"0", "A">>
      [] OTHER -> <<"6", "1">>

\* a line that never needs a soft line break
QpLineFitsAlways(lineChars, isPrintable, width) == TRUE

\* the line can accommodate the output and the '=' of a soft line break
QpLineFits(lineChars, isPrintable, width) ==
    ~(lineChars + (IF isPrintable THEN 2 ELSE 4) >= width)

\* the loop of QsrMailQpEncoderPrivate::readDataImpl (text mode disabled).
\* r holds dev, the bytes the device still delivers (ungetChar puts a byte
\* back at the front), lineChars, data, the bytes written to the caller's
\* buffer, and remaining.  The result is r when the loop is left.
RECURSIVE QpEncodeLoop(_, _)
QpEncodeLoop(r, width) ==
    IF r.dev = <<>> \/ r.remaining <= 0 THEN r
    ELSE
    LET c0 == Head(r.dev)
        d0 == Tail(r.dev)
    IN  IF c0 = SPC /\ Len(d0) < 2
        THEN r                                   \* peek failed: unget, break
        ELSE IF c0 = CR /\ d0 = <<>>
        THEN r                                   \* unget CR, break
        ELSE IF c0 = CR /\ Head(d0) = LF
        THEN IF r.remaining < 2
             THEN [r EXCEPT !.dev = d0]          \* ungetChar(c), c is LF
             ELSE QpEncodeLoop([r EXCEPT !.dev = Tail(d0),
                                         !.data = @ \o <<CR, LF>>,
                                         !.remaining = @ - 2,
                                         !.lineChars = 0], width)
        ELSE
        LET lone == c0 = CR                      \* CR not followed by LF
            c == IF lone THEN Head(d0) ELSE c0   \* getChar(&c) replaced c
            d == d0                              \* ungetChar(c) after it
            tabForce == c0 = SPC /\ d0[1] = CR /\ d0[2] = LF
            forceEncoding == tabForce \/ (r.lineChars = 0 /\ c = ".")
            isPrintable == ~forceEncoding /\ c \in {"a", ".", SPC}
            break == ~QpLineFits(r.lineChars, isPrintable, width)
        IN  IF break /\ r.remaining < 3
            THEN [r EXCEPT !.dev = <<c>> \o d]
            ELSE
            LET r1 == IF break
                      THEN [r EXCEPT !.data = @ \o <<"=", CR, LF>>,
                                     !.remaining = @ - 3,
                                     !.lineChars = 0]
                      ELSE r
            IN  IF isPrintable
                THEN QpEncodeLoop([r1 EXCEPT !.dev = d,
                                             !.data = Append(@, c),
                                             !.remaining = @ - 1,
                                             !.lineChars = @ + 1], width)
                ELSE IF r1.remaining < 3
                THEN [r1 EXCEPT !.dev = <<c>> \o d]
                ELSE QpEncodeLoop([r1 EXCEPT
                                      !.dev = d,
                                      !.data = @ \o <<"=">> \o QpHex(c),
                                      !.remaining = @ - 3,
                                      !.lineChars = @ + 3], width)

\* an encoder opened on a random-access device that holds input
NewEncoder(input, width) ==
    [open |-> TRUE, input |-> input, dev |-> input, lineWidth |-> width,
     lineChars |-> 0,
     output |-> <<>>,          \* everything the reads returned
     maxlen |-> 0,             \* the last read request
     ret |-> 0,                \* what it returned
     written |-> 0,            \* bytes it put into the caller's buffer
     finished |-> FALSE]       \* readChannelFinished() was emitted

InitQp ==
    /\ InitTransport
    /\ wire = <<>>
    /\ envelope = NoEnvelope
    /\ qp \in {NewEncoder(i, w) : i \in QpInputs(MaxInput),
                                   w \in LineWidths}
    /\ rend = NoRenderer
    /\ msg = NoMessage
    /\ b64 = NoBase64
    /\ pump = NoPump

\* QsrMailQpEncoderPrivate::readDataImpl(data, maxlen)
QpReadDataImpl(e, maxlen) ==
    IF e.dev = <<>>
    THEN [e EXCEPT !.maxlen = maxlen, !.ret = 0, !.written = 0]
    ELSE LET r == QpEncodeLoop([dev |-> e.dev, lineChars |-> e.lineChars,
                                data |-> <<>>, remaining |-> maxlen],
                               e.lineWidth)
         IN  [e EXCEPT !.dev = r.dev, !.lineChars = r.lineChars,
                       !.output = @ \o r.data,
                       !.maxlen = maxlen,
                       !.ret = maxlen - r.remaining,
                       !.written = Len(r.data),
                       !.finished = @ \/ r.dev = <<>>]

\* QsrMailQpEncoder::readData with a buffer of maxlen bytes
QpReadData ==
    /\ qp.open
    /\ Len(qp.output) < MaxOutput
    /\ \E maxlen \in 1..MaxLen : qp' = QpReadDataImpl(qp, maxlen)
    /\ UNCHANGED <<tvars, wire, envelope, rend, msg, b64, pump>>

NextQp == QpReadData

SpecQp == InitQp /\ [][NextQp]_vars

\* a consumer that reads with a buffer of MaxLen bytes, and keeps reading
QpReadFull ==
    /\ qp.open
    /\ qp' = QpReadDataImpl(qp, MaxLen)
    /\ UNCHANGED <<tvars, wire, envelope, rend, msg, b64, pump>>

NextQpFair == QpReadFull

SpecQpFair == InitQp /\ [][NextQpFair]_vars /\ WF_vars(QpReadFull)

(* ---- QsrMailRenderer: the FSM over the part tree ---- *)
\* the leaf parts of a multipart
MimeParts ==
    {[partType |-> "MimePart", id |-> i, boundary |-> "", parts |-> <<>>] :
        i \in {"A", "B"}}

\* the boundaries of the multiparts of a message
Boundaries == {"P", "Q"}

\* leaf parts and multiparts that nest at most d deep; a multipart holds
\* up to MaxParts parts, or none
RECURSIVE MimeTrees(_)
MimeTrees(d) ==
    IF d = 0 THEN MimeParts
    ELSE LET sub == MimeTrees(d - 1)
         IN  sub \cup
             {[partType |-> "MimeMultipart", id |-> "", boundary |-> b,
               parts |-> l] :
                 b \in Boundaries,
                 l \in UNION {[1..n -> sub] : n \in 0..MaxParts}}

\* the body of a message: a QsrMailBodyPart, a mime part or a multipart
Bodies ==
    MimeTrees(MaxDepth) \cup
    {[partType |-> "BodyPart", id |-> "T", boundary |-> "", parts |-> <<>>]}

\* what enqueue() is called with: a block of headers (of the message or of
\* the part id), a boundary line or a body
Chunk(t, id, crlf, close) ==
    [t |-> t, id |-> id, crlf |-> crlf, close |-> close]

Headers(id) == Chunk("headers", id, FALSE, FALSE)

Body(id) == Chunk("body", id, FALSE, FALSE)

\* QsrMailRenderer::StackFrame(p)
StackFrame(p) == [dataP |-> p, it |-> 1]

StackFrameAtEnd(f) == f.it = Len(f.dataP.parts) + 1

\* a boundary that has a leading CRLF whenever it is not the first one
StackFrameBoundaryAfterAny(f) ==
    Chunk("boundary", f.dataP.boundary, f.it # 1, StackFrameAtEnd(f))

\* QsrMailRenderer::StackFrame::boundary()
StackFrameBoundary(f) ==
    Chunk("boundary", f.dataP.boundary,
          f.it # 1 /\ f.dataP.parts[f.it - 1].partType = "MimePart",
          StackFrameAtEnd(f))

\* QsrMailRenderer::totalBuffers
RECURSIVE TotalBuffers(_)
TotalBuffers(p) ==
    IF p.partType = "MimePart" THEN 1
    ELSE IF p.partType = "MimeMultipart"
    THEN LET RECURSIVE Sum(_)
             Sum(i) == IF i > Len(p.parts) THEN 0
                       ELSE 2 + TotalBuffers(p.parts[i]) + Sum(i + 1)
         IN  1 + Sum(1) + 1
    ELSE 0

\* a renderer for a message with the given body
NewRenderer(body) ==
    [mState |-> "Idle", body |-> body, mParents |-> <<>>, mPartP |-> body,
     out |-> <<>>,             \* the arguments of the enqueue() calls
     mDevice |-> FALSE,        \* a device is attached (mDevice != 0)
     mTotalChunks |-> 0, mProcessedChunks |-> 0,
     finished |-> FALSE]       \* readChannelFinished() was emitted

InitTree ==
    /\ InitTransport
    /\ wire = <<>>
    /\ envelope = NoEnvelope
    /\ qp = NoEncoder
    /\ rend \in {NewRenderer(b) : b \in Bodies}
    /\ msg = NoMessage
    /\ b64 = NoBase64
    /\ pump = NoPump

\* the multipart mWrapper holding the body
Wrapped(body) ==
    [partType |-> "MimeMultipart", id |-> "", boundary |-> "W",
     parts |-> <<body>>]

\* processStates, IdleState
RenderIdle ==
    /\ rend.mState = "Idle"
    /\ IF rend.body.partType \in {"MimePart", "MimeMultipart"}
       THEN LET p == IF rend.body.partType = "MimePart"
                     THEN Wrapped(rend.body) ELSE rend.body
            IN  rend' = [rend EXCEPT
                            !.mPartP = p,
                            !.out = <<Headers("message"),
                                      Headers(p.boundary)>>,
                            !.mParents = <<StackFrame(p)>>,
                            !.mDevice = TRUE,
                            !.mTotalChunks = TotalBuffers(p),
                            !.mState = "MimeBoundary"]
       ELSE rend' = [rend EXCEPT !.out = <<Headers("message")>>,
                                 !.mDevice = TRUE,
                                 !.mTotalChunks = 2,
                                 !.mState = "SimpleBody"]
    /\ UNCHANGED <<tvars, wire, envelope, qp, msg, b64, pump>>

\* processStates, SimpleBodyState
RenderSimpleBody ==
    /\ rend.mState = "SimpleBody"
    /\ ~rend.mDevice
    /\ rend' = [rend EXCEPT !.out = Append(@, Body(rend.mPartP.id)),
                            !.mDevice = TRUE,
                            !.mState = "Finished"]
    /\ UNCHANGED <<tvars, wire, envelope, qp, msg, b64, pump>>

\* processStates, MimeBoundaryState
RenderBoundary ==
    /\ rend.mState = "MimeBoundary"
    /\ ~rend.mDevice
    /\ LET n == Len(rend.mParents)
           top == rend.mParents[n]
           o == Append(rend.out, StackFrameBoundary(top))
           popped == SubSeq(rend.mParents, 1, n - 1)
       IN  IF StackFrameAtEnd(top)
           THEN IF popped = <<>>
                THEN rend' = [rend EXCEPT !.out = o, !.mParents = popped,
                                          !.mDevice = TRUE,
                                          !.mState = "Finished"]
                ELSE rend' = [rend EXCEPT
                                 !.out = o,
                                 !.mDevice = TRUE,
                                 !.mParents =
                                     [popped EXCEPT ![n - 1].it = @ + 1]]
           ELSE rend' = [rend EXCEPT !.out = o, !.mDevice = TRUE,
                                     !.mState = "MimePart"]
    /\ UNCHANGED <<tvars, wire, envelope, qp, msg, b64, pump>>

\* processStates, MimePartState
RenderMimePart ==
    /\ rend.mState = "MimePart"
    /\ ~rend.mDevice
    /\ LET n == Len(rend.mParents)
           top == rend.mParents[n]
           p == top.dataP.parts[top.it]
       IN  IF p.partType = "MimeMultipart"
           THEN rend' = [rend EXCEPT
                            !.mPartP = p,
                            !.mParents = Append(@, StackFrame(p)),
                            !.out = Append(@, Headers(p.boundary)),
                            !.mDevice = TRUE,
                            !.mState = "MimeBoundary"]
           ELSE rend' = [rend EXCEPT
                            !.mPartP = p,
                            !.mParents[n].it = @ + 1,
                            !.out = Append(@, Headers(p.id)),
                            !.mDevice = TRUE,
                            !.mState = "MimePartBody"]
    /\ UNCHANGED <<tvars, wire, envelope, qp, msg, b64, pump>>

\* processStates, MimePartBodyState
RenderMimePartBody ==
    /\ rend.mState = "MimePartBody"
    /\ ~rend.mDevice
    /\ rend' = [rend EXCEPT !.out = Append(@, Body(rend.mPartP.id)),
                            !.mDevice = TRUE,
                            !.mState = "MimeBoundary"]
    /\ UNCHANGED <<tvars, wire, envelope, qp, msg, b64, pump>>

\* processStates, FinishedState
RenderFinished ==
    /\ rend.mState = "Finished"
    /\ ~rend.mDevice
    /\ ~rend.finished
    /\ rend' = [rend EXCEPT !.finished = TRUE]
    /\ UNCHANGED <<tvars, wire, envelope, qp, msg, b64, pump>>

\* readFromDevice finds the attached device at its end: the chunk is
\* complete, the device is detached, and the FSM is triggered once the
\* buffer is drained
RenderChunkComplete ==
    /\ rend.mState # "none"
    /\ rend.mDevice
    /\ rend' = [rend EXCEPT !.mDevice = FALSE, !.mProcessedChunks = @ + 1]
    /\ UNCHANGED <<tvars, wire, envelope, qp, msg, b64, pump>>

NextTree ==
    \/ RenderChunkComplete
    \/ RenderIdle
    \/ RenderSimpleBody
    \/ RenderBoundary
    \/ RenderMimePart
    \/ RenderMimePartBody
    \/ RenderFinished

SpecTree == InitTree /\ [][NextTree]_vars

(* ---- QsrMailMessagePrivate::cookHeaders ---- *)
\* a null QByteArray, a null QString, an invalid QDateTime
Null == "null"

HeaderPair(name, value) == [name |-> name, value |-> value]

\* the names of the raw headers of a message
HeaderNames == {"Date", "Subject", "Message-ID", "User-Agent", "X-Tag"}

\* header lists of at most n raw headers
HeaderLists(n) ==
    UNION {[1..k -> {HeaderPair(h, "raw") : h \in HeaderNames}] : k \in 0..n}

\* QsrMailHeaders::setHeader
SetHeader(headers, name, value) ==
    IF name = "" THEN headers
    ELSE LET rest == SelectSeq(headers, LAMBDA h : h.name # name)
         IN  IF value = Null THEN rest
             ELSE Append(rest, HeaderPair(name, value))

\* QsrMailHeaders::appendHeader
AppendHeader(headers, name, value) ==
    IF name = "" \/ value = Null THEN headers
    ELSE Append(headers, HeaderPair(name, value))

\* QsrMailHeaders::findHeader: the position of the first header of the
\* name, Len(headers) + 1 for constEnd()
FindHeader(headers, name) ==
    IF \E i \in 1..Len(headers) : headers[i].name = name
    THEN CHOOSE i \in 1..Len(headers) :
             /\ headers[i].name = name
             /\ \A j \in 1..(i - 1) : headers[j].name # name
    ELSE Len(headers) + 1

\* QsrMailHeaders::hasHeader
HasHeader(headers, name) == FindHeader(headers, name) = Len(headers) + 1

\* appendHeader(name, list.at(i).toByteArray()) for every address of list
RECURSIVE AppendAddresses(_, _, _)
AppendAddresses(headers, name, list) ==
    IF list = <<>> THEN headers
    ELSE AppendAddresses(AppendHeader(headers, name, ToByteArray(Head(list))),
                         name, Tail(list))

\* QsrMailRfcTools::rfc2822Date of the date property or of the current time
Rfc2822Date(d) == "rfc2822:" \o d

\* QsrMailRfcTools::toEncodedWords
ToEncodedWords(text) == "words:" \o text

\* QsrMailMessagePrivate::cookHeaders
CookHeaders(m) ==
    LET r1 == AppendAddresses(m.headers, "From", m.from)
        r2 == AppendAddresses(r1, "To", m.to)
        r3 == AppendAddresses(r2, "Reply-To", m.replyTo)
        r4 == AppendAddresses(r3, "Cc", m.cc)
        r5 == AppendAddresses(r4, "Bcc", m.bcc)
        r6 == IF m.date # Null
              THEN SetHeader(r5, "Date", Rfc2822Date(m.date))
              ELSE IF ~HasHeader(r5, "Date")
              THEN SetHeader(r5, "Date", Rfc2822Date("now"))
              ELSE r5
        r7 == IF m.subject # Null
              THEN SetHeader(r6, "Subject", ToEncodedWords(m.subject))
              ELSE r6
        r8 == SetHeader(r7, "Message-ID", m.messageId)
    IN  IF ~HasHeader(r8, "User-Agent")
        THEN SetHeader(r8, "User-Agent", "QsrMail")
        ELSE r8

\* the address lists of a message: empty, or one address
OneOrNone == {<<>>} \cup {<<a>> : a \in {[name |-> "", addr |-> "a@x"]}}

\* the messages whose headers are cooked
HeaderMessages ==
    [cooked : {FALSE}, result : {<<>>},
     headers : HeaderLists(MaxHeaders),
     from : OneOrNone, to : OneOrNone,
     replyTo : {<<>>}, cc : {<<>>}, bcc : {<<>>},
     date : {Null, "date"}, subject : {Null, "text"},
     messageId : {Null, "<id@host>"}]

InitHeaders ==
    /\ InitTransport
    /\ wire = <<>>
    /\ envelope = NoEnvelope
    /\ qp = NoEncoder
    /\ rend = NoRenderer
    /\ msg \in HeaderMessages
    /\ b64 = NoBase64
    /\ pump = NoPump

\* the renderer cooks the headers of the message
Cook ==
    /\ msg # NoMessage
    /\ ~msg.cooked
    /\ msg' = [msg EXCEPT !.cooked = TRUE, !.result = CookHeaders(msg)]
    /\ UNCHANGED <<tvars, wire, envelope, qp, rend, b64, pump>>

NextHeaders == Cook

SpecHeaders == InitHeaders /\ [][NextHeaders]_vars

(* ---- QsrMailBase64Encoder ---- *)
\* QsrMailBase64EncoderPrivate::put for line width width:
\* <<bytes written, lineChars>>
Base64Put(lineChars, width) ==
    IF width > 0
    THEN IF lineChars + 1 >= width THEN <<3, 0>> ELSE <<1, lineChars + 1>>
    ELSE <<1, lineChars>>

\* QsrMailBase64EncoderPrivate::putQ: four calls of put
Base64PutQ(lineChars, width) ==
    LET p1 == Base64Put(lineChars, width)
        p2 == Base64Put(p1[2], width)
        p3 == Base64Put(p2[2], width)
        p4 == Base64Put(p3[2], width)
    IN  <<p1[1] + p2[1] + p3[1] + p4[1], p4[2]>>

\* QsrMailAbstractEncoderPrivate::deviceAtEnd
Base64DeviceAtEnd(e) ==
    IF e.sequential THEN e.dev = 0 /\ e.gotReadChannelFinished
    ELSE e.dev = 0

\* the end of QsrMailBase64EncoderPrivate::readDataImpl: at the end of the
\* device the pending quantum is padded and written
Base64Flush(e, remain) ==
    IF Base64DeviceAtEnd(e) /\ e.qSize > 0
    THEN LET q == Base64PutQ(e.lineChars, e.lineWidth)
         IN  [e EXCEPT !.qSize = 0, !.lineChars = q[2],
                       !.remain = remain - q[1]]
    ELSE [e EXCEPT !.remain = remain]

\* the while loop of readDataImpl: fill the quantum, write it when full
RECURSIVE Base64Loop(_, _)
Base64Loop(e, remain) ==
    IF e.dev > 0 /\ remain > 6
    THEN LET k == IF 3 - e.qSize < e.dev THEN 3 - e.qSize ELSE e.dev
             f == [e EXCEPT !.dev = @ - k, !.qSize = @ + k]
         IN  IF f.qSize = 3
             THEN LET q == Base64PutQ(f.lineChars, f.lineWidth)
                  IN  Base64Loop([f EXCEPT !.qSize = 0, !.lineChars = q[2]],
                                 remain - q[1])
             ELSE Base64Loop(f, remain)
    ELSE Base64Flush(e, remain)

\* QsrMailBase64EncoderPrivate::readDataImpl(data, maxlen)
Base64ReadDataImpl(e, maxlen) ==
    IF e.qSize = 0 /\ Base64DeviceAtEnd(e)
    THEN [e EXCEPT !.maxlen = maxlen, !.ret = 0, !.written = 0]
    ELSE LET r == Base64Loop(e, maxlen)
         IN  [r EXCEPT !.maxlen = maxlen,
                       !.ret = maxlen - r.remain,
                       !.written = maxlen - r.remain,
                       !.flushed = @ \/ (e.qSize > 0 /\ r.qSize = 0
                                           /\ r.dev = e.dev),
                       !.remain = 0]

\* an encoder opened on a device that has dev bytes available; a sequential
\* device delivers later more bytes before it finishes
NewBase64(sequential, dev, later, width) ==
    [open |-> TRUE, sequential |-> sequential, dev |-> dev, later |-> later,
     gotReadChannelFinished |-> FALSE,
     lineWidth |-> width, lineChars |-> 0, qSize |-> 0,
     remain |-> 0,
     maxlen |-> 0,             \* the last read request
     ret |-> 0,                \* what it returned
     written |-> 0,            \* bytes it put into the caller's buffer
     flushed |-> FALSE]        \* a read found the quantum pending and the
                               \* device at its end, and padded it

InitB64 ==
    /\ InitTransport
    /\ wire = <<>>
    /\ envelope = NoEnvelope
    /\ qp = NoEncoder
    /\ rend = NoRenderer
    /\ msg = NoMessage
    /\ b64 \in {NewBase64(FALSE, n, 0, w) : n \in 0..MaxSource,
                                             w \in LineWidths}
           \cup {NewBase64(TRUE, n, m, w) : n \in 0..MaxSource,
                                            m \in 0..MaxSource,
                                            w \in LineWidths}
    /\ pump = NoPump

\* QsrMailBase64Encoder::readData with a buffer of maxlen bytes
Base64ReadData ==
    /\ b64.open
    /\ \E maxlen \in 1..MaxCap : b64' = Base64ReadDataImpl(b64, maxlen)
    /\ UNCHANGED <<tvars, wire, envelope, qp, rend, msg, pump>>

\* the sequential device receives more bytes
Base64SourceDelivers ==
    /\ b64.open
    /\ b64.sequential
    /\ ~b64.gotReadChannelFinished
    /\ \E k \in 1..b64.later :
           b64' = [b64 EXCEPT !.dev = @ + k, !.later = @ - k]
    /\ UNCHANGED <<tvars, wire, envelope, qp, rend, msg, pump>>

\* QsrMailAbstractEncoderPrivate::_q_readChannelFinished
Base64ReadChannelFinished ==
    /\ b64.open
    /\ b64.sequential
    /\ b64.later = 0
    /\ ~b64.gotReadChannelFinished
    /\ b64' = [b64 EXCEPT !.gotReadChannelFinished = TRUE]
    /\ UNCHANGED <<tvars, wire, envelope, qp, rend, msg, pump>>

NextB64 ==
    \/ Base64ReadData
    \/ Base64SourceDelivers
    \/ Base64ReadChannelFinished

SpecB64 == InitB64 /\ [][NextB64]_vars

(* ---- QsrMailRenderer: buffer, devices and queued invocations ---- *)
\* mDevice == 0
NoDevice == [id |-> 0, left |-> 0, later |-> 0, seq |-> FALSE, fin |-> FALSE]

\* the device of chunk id: left bytes are available, a sequential device
\* receives later more bytes and then emits readChannelFinished()
ChunkDevices(id) ==
    {[id |-> id, left |-> n, later |-> 0, seq |-> FALSE, fin |-> FALSE] :
        n \in 0..MaxChunkBytes}
    \cup
    {[id |-> id, left |-> n, later |-> m, seq |-> TRUE, fin |-> FALSE] :
        n \in 0..1, m \in 0..1}

\* what the steps of processStates enqueue, in their order: the FSM is in
\* FinishedState after the step that enqueues the last chunk; the first
\* chunk is the QBuffer of the headers, a body or a boundary follows
Scripts ==
    UNION {{sc \in [1..k -> UNION {ChunkDevices(i) : i \in 1..k}] :
               /\ \A i \in 1..k : sc[i].id = i
               /\ ~sc[1].seq
               /\ sc[1].left > 0} : k \in 2..MaxScript}

NewPump(script) ==
    [mState |-> "Idle", script |-> script, mDevice |-> NoDevice,
     source |-> script,        \* the chunks of the message
     buf |-> <<>>,             \* mBuffer up to mWritePos (chunk ids)
     mReadPos |-> 0, mWritePos |-> 0,
     queued |-> <<>>,          \* invocations posted with Qt::QueuedConnection
     mProcessedChunks |-> 0,
     consumed |-> <<>>,        \* what the consumer took from the buffer
     runs |-> 0,               \* calls of renderMessage()
     finishedCount |-> 0,      \* emissions of readChannelFinished()
     unread |-> FALSE,         \* readChannelFinished() with bytes left
     clobbered |-> FALSE,      \* enqueue() was called with mDevice != 0
     crashed |-> FALSE,        \* Q_ASSERT stopped the program
     aborted |-> FALSE,        \* abort() was called
     late |-> {}]              \* signals emitted after abort()

InitPump ==
    /\ InitTransport
    /\ wire = <<>>
    /\ envelope = NoEnvelope
    /\ qp = NoEncoder
    /\ rend = NoRenderer
    /\ msg = NoMessage
    /\ b64 = NoBase64
    /\ pump \in {NewPump(sc) : sc \in Scripts}

\* a signal is emitted: after abort() it is recorded
Signal(p, name) ==
    IF p.aborted THEN [p EXCEPT !.late = @ \cup {name}] ELSE p

\* QsrMailRenderer::deviceAtEnd for a device without encoder
PumpDeviceAtEnd(d) == d.left = 0 /\ (IF d.seq THEN d.fin ELSE TRUE)

\* QsrMailRenderer::readFromDevice
ReadFromDevice(p) ==
    IF p.mDevice.id = 0 THEN p
    ELSE
    LET remaining == RingSize - p.mWritePos
        got == IF p.mDevice.left < remaining THEN p.mDevice.left
               ELSE remaining
        dev == [p.mDevice EXCEPT !.left = @ - got]
        dataAvailable == got > 0
        p1 == [p EXCEPT !.buf = @ \o [i \in 1..got |-> dev.id],
                        !.mWritePos = @ + got,
                        !.mDevice = dev]
        p2 == IF PumpDeviceAtEnd(dev)
              THEN Signal([p1 EXCEPT
                              !.mProcessedChunks = @ + 1,
                              !.mDevice = NoDevice,
                              !.queued = IF dataAvailable THEN @
                                         ELSE Append(@, "processStates")],
                          "progressUpdate")
              ELSE p1
    IN  IF dataAvailable THEN Signal(p2, "readyRead") ELSE p2

\* QsrMailRenderer::enqueue and the step of processStates that calls it
Enqueue(p) ==
    [p EXCEPT !.clobbered = @ \/ p.mDevice.id # 0,
              !.mDevice = Head(p.script),
              !.script = Tail(@),
              !.queued = Append(@, "readFromDevice"),
              !.mState = IF Tail(p.script) = <<>> THEN "Finished"
                         ELSE "Running"]

\* QsrMailRenderer::processStates
PumpProcessStates(p) ==
    IF p.mState = "Finished"
    THEN Signal([p EXCEPT !.finishedCount = IF @ < 2 THEN @ + 1 ELSE @,
                          !.unread = @ \/ p.mReadPos < p.mWritePos
                                       \/ p.mDevice.id # 0],
                "readChannelFinished")
    ELSE Enqueue(p)

\* an advanceDataPointer that resets the cursors whenever the read cursor
\* catches up
AdvanceAlwaysReset(p, bytes) ==
    LET r == p.mReadPos + bytes
        taken == SubSeq(p.buf, p.mReadPos + 1, r)
        p1 == [p EXCEPT !.mReadPos = r, !.consumed = @ \o taken]
    IN  IF r >= p.mWritePos
        THEN [p1 EXCEPT !.mReadPos = 0, !.mWritePos = 0, !.buf = <<>>,
                        !.queued = Append(@, IF p.mDevice.id = 0
                                             THEN "processStates"
                                             ELSE "readFromDevice")]
        ELSE p1

\* QsrMailRenderer::advanceDataPointer, after the consumer has copied the
\* bytes
PumpAdvanceDataPointer(p, bytes) ==
    LET r == p.mReadPos + bytes
        taken == SubSeq(p.buf, p.mReadPos + 1, r)
        p1 == [p EXCEPT !.mReadPos = r, !.consumed = @ \o taken]
    IN  IF r >= p.mWritePos
        THEN LET p2 == IF p.mWritePos = RingSize
                       THEN [p1 EXCEPT !.mReadPos = 0, !.mWritePos = 0,
                                       !.buf = <<>>]
                       ELSE p1
             IN  [p2 EXCEPT !.queued = Append(@, IF p.mDevice.id = 0
                                                 THEN "processStates"
                                                 ELSE "readFromDevice")]
        ELSE p1

\* the slot connected to readyRead() takes every byte of the buffer before
\* the emitting call returns (sync), or is called later
Drained(p, sync) ==
    IF sync /\ p.mWritePos > p.mReadPos
    THEN PumpAdvanceDataPointer(p, p.mWritePos - p.mReadPos)
    ELSE p

\* QsrMailRenderer::renderMessage
PumpRenderMessage ==
    /\ pump.mState # "none"
    /\ ~pump.crashed
    /\ pump.runs < MaxRuns
    /\ pump' = IF pump.mState # "Idle"
               THEN [pump EXCEPT !.runs = @ + 1]
               ELSE [pump EXCEPT !.runs = @ + 1,
                                 !.queued = Append(@, "processStates")]
    /\ UNCHANGED <<tvars, wire, envelope, qp, rend, msg, b64>>

\* the event loop delivers the oldest queued invocation
PumpDispatchOf(sync) ==
    /\ pump.mState # "none"
    /\ ~pump.crashed
    /\ pump.queued # <<>>
    /\ LET p == [pump EXCEPT !.queued = Tail(@)]
       IN  IF Head(pump.queued) = "readFromDevice"
           THEN pump' = Drained(ReadFromDevice(p), sync)
           ELSE IF p.mState # "Finished" /\ p.mDevice.id # 0
           THEN \* Q_ASSERT(mDevice == 0): aborts the program, or is
                \* compiled out
                \/ pump' = [p EXCEPT !.crashed = TRUE, !.clobbered = TRUE]
                \/ pump' = PumpProcessStates(p)
           ELSE pump' = PumpProcessStates(p)
    /\ UNCHANGED <<tvars, wire, envelope, qp, rend, msg, b64>>

PumpDispatch == PumpDispatchOf(FALSE)

\* the consumer takes bytes from the buffer and calls advanceDataPointer
PumpConsume ==
    /\ pump.mState # "none"
    /\ ~pump.crashed
    /\ pump.mWritePos > pump.mReadPos
    /\ \E bytes \in 1..(pump.mWritePos - pump.mReadPos) :
           pump' = PumpAdvanceDataPointer(pump, bytes)
    /\ UNCHANGED <<tvars, wire, envelope, qp, rend, msg, b64>>

\* the attached sequential device receives bytes and emits readyRead(),
\* which is connected to readFromDevice
PumpDeviceReadyReadOf(sync) ==
    /\ pump.mState # "none"
    /\ ~pump.crashed
    /\ pump.mDevice.id # 0
    /\ pump.mDevice.later > 0
    /\ \E k \in 1..pump.mDevice.later :
           pump' = Drained(ReadFromDevice(
                               [pump EXCEPT !.mDevice.left = @ + k,
                                            !.mDevice.later = @ - k]), sync)
    /\ UNCHANGED <<tvars, wire, envelope, qp, rend, msg, b64>>

PumpDeviceReadyRead == PumpDeviceReadyReadOf(FALSE)

\* QsrMailRenderer::endOfDevice: the attached sequential device emits
\* readChannelFinished()
PumpEndOfDevice ==
    /\ pump.mState # "none"
    /\ ~pump.crashed
    /\ pump.mDevice.id # 0
    /\ pump.mDevice.seq
    /\ pump.mDevice.later = 0
    /\ ~pump.mDevice.fin
    /\ pump' = [pump EXCEPT !.mDevice.fin = TRUE]
    /\ UNCHANGED <<tvars, wire, envelope, qp, rend, msg, b64>>

\* QsrMailRenderer::abort
PumpAbort ==
    /\ pump.mState # "none"
    /\ ~pump.crashed
    /\ ~pump.aborted
    /\ pump' = [pump EXCEPT !.mDevice = NoDevice,
                            !.mReadPos = 0, !.mWritePos = 0, !.buf = <<>>,
                            !.mState = "Finished",
                            !.aborted = TRUE]
    /\ UNCHANGED <<tvars, wire, envelope, qp, rend, msg, b64>>

NextPump ==
    \/ PumpRenderMessage
    \/ PumpDispatch
    \/ PumpConsume
    \/ PumpDeviceReadyRead
    \/ PumpEndOfDevice
    \/ PumpAbort

SpecPump == InitPump /\ [][NextPump]_vars

\* renderMessage is called once
PumpRun == pump.runs = 0 /\ PumpRenderMessage

\* a queued invocation is delivered; the consumer drains the buffer on
\* readyRead()
PumpDispatchDrained == PumpDispatchOf(TRUE)

\* the device receives bytes; the consumer drains the buffer on readyRead()
PumpDeviceReadyReadDrained == PumpDeviceReadyReadOf(TRUE)

\* one run without abort(), with a consumer that drains the buffer on every
\* readyRead()
NextPumpFair ==
    \/ PumpRun
    \/ PumpDispatchDrained
    \/ PumpDeviceReadyReadDrained
    \/ PumpEndOfDevice

\* the message is rendered, queued invocations are delivered, the consumer
\* drains the buffer and every device receives its bytes and finishes
SpecPumpFair ==
    /\ InitPump
    /\ [][NextPumpFair]_vars
    /\ WF_vars(PumpRun)
    /\ WF_vars(PumpDispatchDrained)
    /\ WF_vars(PumpDeviceReadyReadDrained)
    /\ WF_vars(PumpEndOfDevice)

(* ---- observations on the effects of the last slot ---- *)
\* the last slot wrote cmd to the connected socket
Wrote(cmd) ==
    \E i \in 1..Len(out) :
        out[i].op = "write" /\ out[i].what = cmd /\ out[i].up

\* the last slot emitted finished() of transaction t with error e
Finished(t, e) ==
    \E i \in 1..Len(out) :
        out[i].op = "finished" /\ out[i].tx = t /\ out[i].what = e

(* ---- finalisation ---- *)
\* C1: every transaction emits finished() at most once, and exactly once
\* when the transport has emitted its own finished()
C1_FinishedExactlyOnce ==
    \A t \in 1..Len(tx) :
        /\ tx[t].finished <= 1
        /\ finishedCount > 0 => tx[t].finished = 1

\* a transaction that was aborted by the caller and finalised by the
\* transport as well
C1_FinishedTwice ==
    \E t \in 1..Len(tx) :
        tx[t].aborts = 1 /\ tx[t].finished = 2 /\ t \notin {queue[i] : i \in 1..Len(queue)}

(* ---- encryption ---- *)
\* C2: with tlsLevel TlsRequired neither AUTH nor MAIL FROM is written to a
\* connected socket that is not encrypted
C2_RequiredNeverPlain ==
    tlsLevel = "TlsRequired" =>
        \A i \in 1..Len(out) :
            (out[i].op = "write" /\ out[i].what \in {"AUTH", "MAIL"}
                /\ out[i].up) => out[i].enc

\* MAIL FROM goes out in plain text although TLS is required
C2_PlainMailFrom ==
    /\ tlsLevel = "TlsRequired"
    /\ ~encrypted
    /\ state = "MailFrom"
    /\ Wrote("MAIL")

(* ---- the DATA terminator ---- *)
\* C3: the terminator is written only when the renderer of the head
\* transaction has emitted readChannelFinished() and its output is written,
\* and no payload of a message is written after the message's terminator
C3_TerminatorAfterRenderer ==
    \A i \in 1..Len(out) :
        out[i].op = "write" =>
            /\ out[i].what = "TERM" => out[i].rdone
            /\ out[i].what = "PAYLOAD" => ~out[i].term

\* a server response in EndOfMessage made the transport write the
\* terminator while the renderer still holds output
C3_EarlyTerminator ==
    /\ last.slot = "response"
    /\ state = "DataSent"
    /\ Wrote("TERM")
    /\ tx[Head(queue)].rAvail

(* ---- termination ---- *)
\* C5: once sendMessages() was called with a non-empty queue the transport
\* eventually emits finished()
C5_EventuallyFinished ==
    (sendCalled /\ totalMessages > 0) ~> (finishedCount > 0)

\* the resolver reported an error: the queue is flushed, the FSM is idle
\* again and finished() was not emitted
C5_ResolverErrorIdle ==
    /\ sendCalled
    /\ state = "Idle"
    /\ finishedCount = 0
    /\ \E t \in 1..Len(tx) : tx[t].error = "ResolverError"

(* ---- reconnecting ---- *)
\* the queued _q_processStates that handles DisconnectedState runs
DisconnectedRuns ==
    state = "Disconnected" /\ queue # <<>> /\ last'.slot = "posted"

\* every transaction of the queue is finalised with one of errors by the step
Flushed(errors) ==
    /\ queue' = <<>>
    /\ \A i \in 1..Len(queue) :
          /\ tx'[queue[i]].error \in errors
          /\ tx'[queue[i]].finished = tx[queue[i]].finished + 1

\* C6: when a reconnect attempt (ReadyToSend was reached before) is refused,
\* the remaining transactions are finalised with ConnectionError or
\* TimeoutError and no further attempt is made
C6_RefusedReconnectEnds ==
    [][(DisconnectedRuns /\ reachedRTS /\ "refused" \in hist.causes) =>
           (Flushed({"ConnectionError", "TimeoutError"})
               /\ sock' # "Connecting")]_vars

\* a reconnect attempt was refused and the transport is about to handle it
C6_ReconnectRefused ==
    /\ state = "Disconnected"
    /\ posted > 0
    /\ reachedRTS
    /\ queue # <<>>
    /\ "refused" \in hist.causes

(* ---- timeout and abort ---- *)
\* C7: when the timer expired with transactions outstanding, every one of
\* them is finalised with TimeoutError once the socket is disconnected
C7_TimeoutFlushesAll ==
    [][(DisconnectedRuns /\ "timeout" \in hist.causes) =>
           Flushed({"TimeoutError"})]_vars

\* the timer expired after ReadyToSend was reached, the socket is closed
C7_TimeoutAfterRTS ==
    /\ state = "Disconnected"
    /\ posted > 0
    /\ interrupted
    /\ reachedRTS
    /\ queue # <<>>
    /\ hist.causes = {"timeout"}

\* C8: when QsrMailTransport::abort was called (and the timer did not
\* expire), every transaction still queued is finalised with AbortedError
\* once the socket is disconnected, and MAIL FROM is not written afterwards
C8_AbortFlushesAll ==
    /\ [][(DisconnectedRuns /\ "abort" \in hist.causes /\ ~interrupted) =>
              Flushed({"AbortedError"})]_vars
    /\ [][aborted => ~Wrote("MAIL")']_vars

\* abort() was called after ReadyToSend was reached, the socket is closed
C8_AbortAfterRTS ==
    /\ state = "Disconnected"
    /\ posted > 0
    /\ aborted
    /\ ~interrupted
    /\ reachedRTS
    /\ queue # <<>>
    /\ hist.causes = {"abort"}

(* ---- error replies ---- *)
\* a response with a 4xx/5xx code is processed in one of the states
ErrorReplyIn(states) ==
    last'.slot = "response" /\ last'.code # 0 /\ state \in states

\* C9: a 4xx/5xx reply in MailFrom, RcptTo, Data, EndOfMessage or DataSent
\* finalises exactly the head transaction with ResponseError and the reply
\* code, writes RSET and returns to ReadyToSend
C9_PerMessagePolicy ==
    [][ErrorReplyIn({"MailFrom", "RcptTo", "Data", "EndOfMessage",
                     "DataSent"}) =>
           /\ queue # <<>>
           /\ queue' = Tail(queue)
           /\ tx'[Head(queue)].error = "ResponseError"
           /\ tx'[Head(queue)].status = last'.code
           /\ \A t \in 1..Len(tx) :
                 tx'[t].finished =
                     tx[t].finished + (IF t = Head(queue) THEN 1 ELSE 0)
           /\ Wrote("RSET")'
           /\ state' = "ReadyToSend"]_vars

\* a 4xx/5xx reply arrived in EndOfMessage, while the renderer waits for the
\* socket, and the transaction is not finalised
C9_ErrorReplyInEndOfMessage ==
    /\ last.slot = "response"
    /\ last.code # 0
    /\ state = "DataSent"
    /\ Wrote("TERM")
    /\ waitingRenderer = Head(queue)
    /\ tx[Head(queue)].finished = 0

\* the whole queue is finalised with ResponseError and the reply code, QUIT
\* is written and the FSM closes
FlushedAndQuit ==
    /\ Flushed({"ResponseError"})
    /\ \A i \in 1..Len(queue) : tx'[queue[i]].status = last'.code
    /\ Wrote("QUIT")'
    /\ state' = "Closing"

HasDotLine(bytes) ==
    \E i \in 1..(Len(bytes) - 4) :
        SubSeq(bytes, i, i + 4) = <<CR, LF, ".", CR, LF>>

\* C4: what is written between the 354 reply and the terminator holds no
\* line that consists of a dot only, whatever the encoder of the part
C4_NoDotLine == ~HasDotLine(wire.sent)

\* a raw body with a dot line has been written and terminated
C4_RawDotLine ==
    /\ wire.enc = "raw"
    /\ wire.term
    /\ HasDotLine(wire.sent)

(* ---- STARTTLS refused ---- *)
\* C11: with tlsLevel TlsOptional a 454 reply to STARTTLS finalises no
\* transaction with ResponseError, writes no QUIT because of the reply and
\* leaves the FSM in the unencrypted session (Auth, or the first message)
C11_OptionalFallsBack ==
    [][(/\ last'.slot = "response"
        /\ last'.code = 454
        /\ state = "TlsSetup"
        /\ tlsLevel = "TlsOptional")
           => /\ \A t \in 1..Len(tx) :
                    tx'[t].error # "ResponseError" /\ tx'[t].status # 454
              /\ state' \in {"Auth", "MailFrom", "Closing"}]_vars

\* the 454 reply to STARTTLS of the first session flushed the queue
C11_FallbackFlushed ==
    /\ tlsLevel = "TlsOptional"
    /\ hasStartTls
    /\ ~reachedRTS
    /\ ~encrypted
    /\ last.slot = "response"
    /\ last.code = 454
    /\ state = "Closing"
    /\ Wrote("QUIT")
    /\ Finished(1, "ResponseError")
    /\ tx[1].status = 454

(* ---- the signals of a finalisation ---- *)
\* C12: error(kind) is emitted only with a kind other than NoError and
\* finished() of the same transaction follows it at once; a finished() that
\* no error() precedes belongs to a transaction whose error is NoError
C12_ErrorPrecedence ==
    \A i \in 1..Len(out) :
        /\ out[i].op = "error" =>
              /\ out[i].what # "NoError"
              /\ i < Len(out)
              /\ out[i + 1].op = "finished"
              /\ out[i + 1].tx = out[i].tx
              /\ out[i + 1].what = out[i].what
        /\ (out[i].op = "finished"
              /\ ~(i > 1 /\ out[i - 1].op = "error"
                         /\ out[i - 1].tx = out[i].tx)) =>
              /\ out[i].what = "NoError"
              /\ tx[out[i].tx].error = "NoError"

\* one slot finalised the delivered first message without error() and the
\* second, which has no sender, with error(NoSenderError)
C12_BothFinalisations ==
    \E i, j \in 1..Len(out) :
        /\ i < j
        /\ out[i].op = "finished" /\ out[i].tx = 1 /\ out[i].what = "NoError"
        /\ out[j].op = "error" /\ out[j].tx = 2
        /\ out[j].what = "NoSenderError"
        /\ out[j + 1].op = "finished"

(* ---- QsrMailTransaction::abort ---- *)
\* C13: abort() on a transaction that has emitted finished() before emits no
\* signal and leaves the transaction's error and status as they are
C13_AbortIdempotent ==
    [][\A t \in 1..Len(tx) :
          (tx'[t].aborts = tx[t].aborts + 1 /\ tx[t].finished > 0) =>
              /\ out' = <<>>
              /\ tx'[t].finished = tx[t].finished
              /\ tx'[t].error = tx[t].error
              /\ tx'[t].status = tx[t].status]_vars

\* abort() on a delivered transaction: its error changed from NoError to
\* AbortedError and error() and finished() were emitted again
C13_AbortAfterDelivery ==
    /\ tx # <<>>
    /\ tx[1].aborts = 1
    /\ tx[1].status = 250
    /\ tx[1].error = "AbortedError"
    /\ tx[1].finished = 2
    /\ Finished(1, "AbortedError")

\* C14: once the caller has aborted a transaction, the transport writes no
\* MAIL FROM, RCPT TO or DATA for it and does not finalise it again
C14_AbortedLeftAlone ==
    [][\A t \in 1..Len(tx) :
          (tx[t].aborts > 0 /\ tx'[t].aborts = tx[t].aborts) =>
              /\ tx'[t].finished = tx[t].finished
              /\ \A i \in 1..Len(out') :
                    (out'[i].op = "write"
                        /\ out'[i].what \in {"MAIL", "RCPT", "DATA"})
                    => out'[i].tx # t]_vars

\* MAIL FROM was written for a transaction that the caller aborted while it
\* was queued
C14_MailFromForAborted ==
    /\ state = "MailFrom"
    /\ Wrote("MAIL")
    /\ tx[Head(queue)].aborts = 1
    /\ tx[Head(queue)].finished = 1
    /\ tx[Head(queue)].error = "AbortedError"

(* ---- order of delivery ---- *)
\* an attempt on a transaction: MAIL FROM is written for it, or it is
\* finalised locally for its missing sender or recipients
IsAttempt(e) ==
    \/ e.op = "write" /\ e.what = "MAIL"
    \/ e.op = "finished" /\ e.what \in {"NoSenderError", "NoRecipientsError"}

\* the transactions a slot attempted, in the order of the attempts
Attempts(o) ==
    LET a == SelectSeq(o, IsAttempt)
    IN  [i \in 1..Len(a) |-> a[i].tx]

IsSuffix(q, p) == \E k \in 0..Len(p) : q = SubSeq(p, k + 1, Len(p))

\* C15: the queue holds the transactions in the order they were queued and
\* only loses transactions at its front; the transactions a slot attempts
\* are consecutive in the queue, in queue order, and those in front of them
\* have left the queue; so the attempts of one sendMessages() follow queue
\* order, across RSET and reconnects
C15_QueueOrder ==
    [][/\ \A i, j \in 1..Len(queue') : i < j => queue'[i] < queue'[j]
       /\ sendCalled =>
             LET a == Attempts(out')
             IN  /\ IsSuffix(queue', queue)
                 /\ a # <<>> =>
                       \E k \in 1..Len(queue) :
                           /\ k + Len(a) - 1 <= Len(queue)
                           /\ a = SubSeq(queue, k, k + Len(a) - 1)
                           /\ Len(queue') <= Len(queue) - (k - 1)]_vars

\* the first message was refused by the server and, after RSET, MAIL FROM
\* is written for the second
C15_SecondAfterRset ==
    /\ Len(tx) = 2
    /\ tx[1].error = "ResponseError"
    /\ tx[1].finished = 1
    /\ reachedRTS
    /\ queue = <<2>>
    /\ state = "MailFrom"
    /\ Wrote("MAIL")

(* ---- sendMessages(address) ---- *)
\* C16: the FSM is in ConnectedState or BannerState only when the socket has
\* reported the connection established (connectToHost was called before)
C16_ConnectedAfterSocket ==
    state \in {"Connected", "Banner"} => sock \in {"Connected", "Closing"}

\* sendMessages(address) was dispatched: the FSM waits for the banner on a
\* socket that was never connected
C16_BannerUnconnected ==
    /\ sendCalled
    /\ last.slot = "posted"
    /\ state = "Banner"
    /\ sock = "Unconnected"
    /\ queue # <<>>

(* ---- plain submission ---- *)
\* the commands a slot wrote, in order
Writes(o) ==
    LET w == SelectSeq(o, LAMBDA e : e.op = "write")
    IN  [i \in 1..Len(w) |-> w[i].what]

\* what the FSM writes and where it goes on the reply it awaits in state s,
\* in a plain submission of one message with one recipient
PlainScript(s) ==
    CASE s = "Banner" -> <<<<"EHLO">>, "SessionInit">>
      [] s = "SessionInit" -> <<<<"MAIL">>, "MailFrom">>
      [] s = "MailFrom" -> <<<<"RCPT">>, "RcptTo">>
      [] s = "RcptTo" -> <<<<"DATA">>, "Data">>
      [] s = "Data" -> <<<<>>, "EndOfMessage">>
      [] s = "DataSent" -> <<<<"QUIT">>, "Closing">>
      [] OTHER -> <<<<>>, "Closing">>

\* C17: one queued message with a sender and one recipient, a server that
\* accepts everything and offers neither STARTTLS nor AUTH, TLS not
\* required: each reply makes the FSM write exactly the next command of
\* EHLO, MAIL FROM, RCPT TO, DATA, QUIT; the payload and then the terminator
\* are written by the renderer's steps after the 354 reply; nothing else is
\* written; and the transaction is finalised once, with NoError, on the
\* reply to the terminator
C17_PlainSubmission ==
    [][(totalMessages = 1 /\ tlsLevel # "TlsRequired") =>
          LET w == Writes(out')
          IN  /\ last'.slot = "response" =>
                    <<w, state'>> = PlainScript(state)
              /\ last'.slot = "renderer" =>
                    /\ state = "EndOfMessage"
                    /\ \/ w = <<"PAYLOAD">> /\ state' = "EndOfMessage"
                                            /\ ~tx[1].rDone
                       \/ w = <<"TERM">> /\ state' = "DataSent"
                                         /\ tx'[1].rDone /\ ~tx'[1].rAvail
              /\ last'.slot \notin {"response", "renderer"} => w = <<>>
              /\ tx'[1].finished # tx[1].finished =>
                    /\ state = "DataSent"
                    /\ last'.slot = "response"
                    /\ tx[1].finished = 0
                    /\ tx'[1].finished = 1
                    /\ tx'[1].error = "NoError"]_vars

\* the plain submission is complete: the message is delivered, QUIT is
\* written on the reply to the terminator
C17_PlainDelivered ==
    /\ totalMessages = 1
    /\ tlsLevel # "TlsRequired"
    /\ last.slot = "response"
    /\ state = "Closing"
    /\ queue = <<>>
    /\ tx[1].term
    /\ tx[1].status = 250
    /\ Finished(1, "NoError")
    /\ Writes(out) = <<"QUIT">>

(* ---- renderer errors ---- *)
\* the step finalises no transaction but those in ts
FinalisesOnly(ts) ==
    \A t \in 1..Len(tx) :
        tx'[t].finished = tx[t].finished + (IF t \in ts THEN 1 ELSE 0)

Keys ==
    LET all == envelope.to \o envelope.cc \o envelope.bcc
    IN  [i \in 1..Len(all) |-> ToByteArray(all[i])]

\* a list without the entries that occur earlier in it
RECURSIVE Dedup(_)
Dedup(l) ==
    IF l = <<>> THEN <<>>
    ELSE LET front == Dedup(SubSeq(l, 1, Len(l) - 1))
             x == l[Len(l)]
         IN  IF \E i \in 1..Len(front) : front[i] = x
             THEN front ELSE Append(front, x)

Preflight(t) ==
    IF ~tx[t].hasFrom THEN "NoSenderError"
    ELSE IF tx[t].nRcpt = 0 THEN "NoRecipientsError"
    ELSE "NoError"

\* C20: a transaction without sender is finalised with NoSenderError and
\* one with a sender and no recipient with NoRecipientsError, once, when
\* its turn comes; MAIL FROM, RCPT TO, DATA, payload and terminator are
\* written only for a transaction with sender and recipients; and the slot
\* that rejects a transaction goes on to the next one at once: it ends with
\* MAIL FROM for the first valid transaction behind it, or with QUIT and an
\* empty queue
C20_EnvelopeValidation ==
    [][LET a == SelectSeq(out', IsAttempt)
       IN  /\ \A i \in 1..Len(out') :
                 (out'[i].op = "write"
                     /\ out'[i].what \in {"MAIL", "RCPT", "DATA", "PAYLOAD",
                                          "TERM"}) =>
                     Preflight(out'[i].tx) = "NoError"
           /\ \A i \in 1..Len(a) :
                 LET t == a[i].tx
                 IN  /\ t \in {queue[k] : k \in 1..Len(queue)}
                     /\ a[i].op = "finished" =>
                           /\ a[i].what = Preflight(t)
                           /\ tx'[t].error = Preflight(t)
                           /\ tx'[t].finished = tx[t].finished + 1
                           /\ t \notin {queue'[k] : k \in 1..Len(queue')}
                           /\ i < Len(a) \/
                                 /\ queue' = <<>>
                                 /\ state' = "Closing"
                                 /\ out'[Len(out')].op = "write"
                                 /\ out'[Len(out')].what = "QUIT"
                     /\ a[i].op = "write" =>
                           /\ i = Len(a)
                           /\ queue' # <<>> /\ t = Head(queue')
                           /\ state' = "MailFrom"
                           /\ out'[Len(out')] = a[i]
           /\ state' = "MailFrom" =>
                 queue' # <<>> /\ Preflight(Head(queue')) = "NoError"]_vars

\* one slot rejected a message without sender and a message without
\* recipients and wrote QUIT
C20_BothRejected ==
    /\ Len(tx) = 2
    /\ Finished(1, "NoSenderError")
    /\ Finished(2, "NoRecipientsError")
    /\ queue = <<>>
    /\ state = "Closing"
    /\ Writes(out) = <<"QUIT">>

(* ---- the quoted-printable encoder ---- *)
\* byte i of o is the first byte of a line
QpLineStart(o, i) == i = 1 \/ (i > 2 /\ o[i - 2] = CR /\ o[i - 1] = LF)

\* o holds a soft line break
HasSoftBreak(o) ==
    \E i \in 1..(Len(o) - 2) : SubSeq(o, i, i + 2) = <<"=", CR, LF>>

\* C21: no line of the encoder's output begins with a literal '.'
C21_NoLeadingDot ==
    qp.open => \A i \in 1..Len(qp.output) :
                   QpLineStart(qp.output, i) => qp.output[i] # "."

\* a '.' was written directly after a soft line break
C21_DotAfterSoftBreak ==
    /\ qp.open
    /\ \E i \in 4..Len(qp.output) :
           SubSeq(qp.output, i - 3, i) = <<"=", CR, LF, ".">>

\* the byte that =XY stands for
QpUnhex(x, y) ==
    CASE <<x, y>> = <<"2", "E">> -> "."
      [] <<x, y>> = <<"2", "0">> -> SPC
      [] <<x, y>> = <<"3", "D">> -> "="
      [] <<x, y>> = <<"0", "D">> -> CR
      [] <<x, y>> = <<"0", "A">> -> LF
      [] OTHER -> "a"

\* the quoted-printable decoding of o (RFC 2045, 6.7): a soft line break
\* stands for nothing, =XY for one byte, every other byte for itself
RECURSIVE QpDecode(_)
QpDecode(o) ==
    IF o = <<>> THEN <<>>
    ELSE IF Head(o) = "=" /\ Len(o) >= 3
    THEN IF o[2] = CR /\ o[3] = LF
         THEN QpDecode(SubSeq(o, 4, Len(o)))
         ELSE <<QpUnhex(o[2], o[3])>> \o QpDecode(SubSeq(o, 4, Len(o)))
    ELSE <<Head(o)>> \o QpDecode(Tail(o))

\* C22: when the encoder has reported the end of its input, what the reads
\* returned decodes to the input, whatever the capacities of the reads
C22_RoundTrip ==
    (qp.open /\ qp.finished) => QpDecode(qp.output) = qp.input

\* a CRLF pair did not fit into a read and the CR was lost: the encoder
\* finished and a line break of the input arrives as a bare LF
C22_LostCR ==
    /\ qp.open
    /\ qp.finished
    /\ qp.input = <<CR, LF>>
    /\ QpDecode(qp.output) = <<LF>>

\* C23: with a line width of at least four no line of the output, its soft
\* line break '=' included and its CRLF excluded, is longer than the width
C23_LineBound ==
    (qp.open /\ qp.lineWidth >= 4)
        => \A i \in 1..(Len(qp.output) - qp.lineWidth) :
               \E j \in i..(i + qp.lineWidth) : qp.output[j] \in {CR, LF}

\* a line of exactly lineWidth octets that ends in a soft line break
C23_FullLine ==
    /\ qp.open
    /\ qp.lineWidth >= 4
    /\ \E i \in 1..(Len(qp.output) - qp.lineWidth - 1) :
           /\ QpLineStart(qp.output, i)
           /\ \A j \in i..(i + qp.lineWidth - 1) :
                  qp.output[j] \notin {CR, LF}
           /\ SubSeq(qp.output, i + qp.lineWidth - 1, i + qp.lineWidth + 1)
                  = <<"=", CR, LF>>

\* bytes ends with CR LF
EndsWithCrlf(bytes) ==
    Len(bytes) >= 2 /\ SubSeq(bytes, Len(bytes) - 1, Len(bytes)) = <<CR, LF>>

RECURSIVE DocPart(_), DocParts(_, _)
DocPart(p) ==
    IF p.partType = "MimeMultipart"
    THEN <<Headers(p.boundary)>> \o DocParts(p, 1)
    ELSE <<Headers(p.id), Body(p.id)>>

DocParts(p, i) ==
    IF i > Len(p.parts)
    THEN <<Chunk("boundary", p.boundary, FALSE, TRUE)>>
    ELSE <<Chunk("boundary", p.boundary, FALSE, FALSE)>>
         \o DocPart(p.parts[i]) \o DocParts(p, i + 1)

\* a boundary gets its leading CRLF if and only if the chunk before it is
\* the body of a leaf part
WithCrlf(chunks) ==
    [k \in 1..Len(chunks) |->
        IF chunks[k].t = "boundary"
        THEN [chunks[k] EXCEPT !.crlf = k > 1 /\ chunks[k - 1].t = "body"]
        ELSE chunks[k]]

\* the reference serialisation of a message with the given body
Reference(body) ==
    <<Headers("message")>> \o
    (CASE body.partType = "BodyPart" -> <<Body(body.id)>>
       [] body.partType = "MimePart" -> WithCrlf(DocPart(Wrapped(body)))
       [] OTHER -> WithCrlf(DocPart(body)))

Named(headers, name) == SelectSeq(headers, LAMBDA h : h.name = name)

\* the single-value headers that the properties of the message override
Overridden(m) ==
    {n \in {"Date", "Subject", "Message-ID"} :
        \/ n = "Date" /\ m.date # Null
        \/ n = "Subject" /\ m.subject # Null
        \/ n = "Message-ID" /\ m.messageId # Null}

\* C27: an overridden single-value header that has a raw header of its name
\* keeps the place of the raw header among the other raw headers
C27_ReplacedInPlace ==
    msg.cooked =>
        \A n \in Overridden(msg) : \A o \in HeaderNames \ {n} :
            (/\ Len(Named(msg.headers, n)) = 1
             /\ Len(Named(msg.headers, o)) = 1
             /\ Len(Named(msg.result, n)) = 1
             /\ Len(Named(msg.result, o)) = 1)
                => (FindHeader(msg.headers, n) < FindHeader(msg.headers, o)
                      <=> FindHeader(msg.result, n) < FindHeader(msg.result, o))

\* the raw headers are Subject and X-Tag in this order, the subject is set,
\* and the cooked headers have the new Subject after X-Tag
C27_SubjectMovedToEnd ==
    /\ msg.cooked
    /\ msg.subject # Null
    /\ msg.headers = <<HeaderPair("Subject", "raw"), HeaderPair("X-Tag", "raw")>>
    /\ Named(msg.result, "Subject")
           = <<HeaderPair("Subject", ToEncodedWords(msg.subject))>>
    /\ FindHeader(msg.result, "X-Tag") < FindHeader(msg.result, "Subject")

\* C28: the cooked headers hold exactly one Date header: the date property
\* if it is set, else the raw Date header unchanged, else the current time
C28_OneDate ==
    (msg.cooked /\ Len(Named(msg.headers, "Date")) <= 1) =>
        Named(msg.result, "Date") =
            IF msg.date # Null
            THEN <<HeaderPair("Date", Rfc2822Date(msg.date))>>
            ELSE IF Named(msg.headers, "Date") # <<>>
            THEN Named(msg.headers, "Date")
            ELSE <<HeaderPair("Date", Rfc2822Date("now"))>>

\* neither the date property nor a raw Date header is set, and the cooked
\* headers have no Date header
C28_NoDate ==
    /\ msg.cooked
    /\ msg.date = Null
    /\ Named(msg.headers, "Date") = <<>>
    /\ Named(msg.result, "Date") = <<>>

\* C33: the number of processed chunks never exceeds mTotalChunks, and is
\* mTotalChunks when readChannelFinished() is emitted
C33_ProgressAccounting ==
    rend.mState \notin {"none", "Idle"}
        => /\ rend.mProcessedChunks <= rend.mTotalChunks
           /\ rend.finished => rend.mProcessedChunks = rend.mTotalChunks

\* a message with a multipart nested in its multipart was rendered to the
\* end and fewer chunks than mTotalChunks were processed
C33_NestedShort ==
    /\ rend.mState = "Finished"
    /\ rend.finished
    /\ rend.body.partType = "MimeMultipart"
    /\ \E i \in 1..Len(rend.body.parts) :
           rend.body.parts[i].partType = "MimeMultipart"
    /\ rend.mProcessedChunks < rend.mTotalChunks

\* C24: with a line width of 0 the output holds no soft line break
C24_NoFoldingAtZero ==
    (qp.open /\ qp.lineWidth = 0) => ~HasSoftBreak(qp.output)

\* an encoder of line width 0 has written a soft line break
C24_SoftBreakAtZero ==
    /\ qp.open
    /\ qp.lineWidth = 0
    /\ qp.written > 0
    /\ HasSoftBreak(qp.output)

\* C29: a consumer that keeps reading with a capacity of at least six
\* eventually has all bytes of the device consumed
C29_EventuallyAtEnd == <>(qp.open /\ qp.dev = <<>>)

\* the last byte of the input is a SPACE, it is the only byte left in the
\* device and the last read returned nothing
C29_StuckOnSpace ==
    /\ qp.open
    /\ qp.maxlen >= 6
    /\ qp.ret = 0
    /\ qp.dev = <<SPC>>
    /\ ~qp.finished

\* C30: a read puts at most maxlen bytes into the buffer of the caller and
\* returns a count between 0 and maxlen
C30_BoundedRead ==
    qp.open => (qp.written <= qp.maxlen /\ qp.ret \in 0..qp.maxlen)

\* a printable character was written after a soft line break that took the
\* last bytes of the buffer
C30_Overrun ==
    /\ qp.open
    /\ qp.maxlen >= 1
    /\ qp.written = qp.maxlen + 1
    /\ qp.ret = qp.maxlen + 1

(* ---- the Base64 encoder ---- *)
\* C31: a read of the Base64 encoder puts at most maxlen bytes into the
\* buffer of the caller and returns a count between 0 and maxlen
C31_Base64BoundedRead ==
    b64.open => (b64.written <= b64.maxlen /\ b64.ret \in 0..b64.maxlen)

\* the sequential source ran dry inside a quantum and finished later; the
\* read that padded the quantum had room for fewer than four bytes
C31_FlushOverrun ==
    /\ b64.open
    /\ b64.sequential
    /\ b64.flushed
    /\ b64.maxlen \in 1..3
    /\ b64.written > b64.maxlen


\* the step is an advanceDataPointer that makes the read cursor catch up
\* with the write cursor
CaughtUp ==
    /\ pump.mState # "none"
    /\ pump.mWritePos > pump.mReadPos
    /\ Len(pump'.consumed) - Len(pump.consumed)
           = pump.mWritePos - pump.mReadPos

RECURSIVE ScriptBytes(_)
ScriptBytes(sc) ==
    IF sc = <<>> THEN <<>>
    ELSE [i \in 1..(Head(sc).left + Head(sc).later) |-> Head(sc).id]
         \o ScriptBytes(Tail(sc))

\* C35: the renderer runs at most once: with a second call of renderMessage
\* at any time after the first, the state machine never executes a step
\* while a device is still attached.
C35_RunOnce ==
    (pump.mState # "none" /\ ~pump.aborted) => ~pump.clobbered

\* renderMessage was called twice and a step of the state machine has run
\* while the device of the chunk before was attached
C35_SecondRunSteps ==
    /\ pump.mState # "none"
    /\ ~pump.aborted
    /\ pump.runs = 2
    /\ pump.clobbered


\* C34: after abort(), called in any state and with any queued processStates
\* or readFromDevice still pending, the renderer emits no further signal.
C34_SilentAfterAbort ==
    pump.mState # "none" => pump.late = {}

\* abort() was called and readChannelFinished() was emitted after it
C34_FinishedAfterAbort ==
    /\ pump.mState # "none"
    /\ pump.aborted
    /\ "readChannelFinished" \in pump.late


\* the renderer is finished: FinishedState, no device attached, every byte
\* of the message consumed and readChannelFinished() emitted once
PumpFinished ==
    /\ pump.mState = "Finished"
    /\ pump.mDevice.id = 0
    /\ pump.consumed = ScriptBytes(pump.source)
    /\ pump.finishedCount = 1

\* C32: when every device reaches its end and the consumer drains the
\* buffer on every readyRead, the renderer reaches FinishedState with no
\* device attached and emits readChannelFinished() once, after every byte
\* was consumed.
C32_EventuallyFinished == <>PumpFinished

\* the attached sequential device has finished after the last read from it,
\* the buffer is drained and no invocation is queued
C32_StuckOnFinishedDevice ==
    /\ pump.mState # "none"
    /\ pump.runs = 1
    /\ ~pump.crashed
    /\ pump.mDevice.id # 0
    /\ pump.mDevice.seq
    /\ pump.mDevice.fin
    /\ pump.mDevice.left = 0
    /\ pump.mDevice.later = 0
    /\ pump.queued = <<>>
    /\ pump.mReadPos = pump.mWritePos
    /\ pump.finishedCount = 0


\* what the transport writes for transaction t when it is delivered: MAIL
\* FROM, its RCPT TO commands, DATA, the chunks of its rendering and the
\* terminator
Delivery(t) ==
    <<"MAIL">> \o [i \in 1..tx[t].nRcpt |-> "RCPT"] \o <<"DATA">>
        \o [i \in 1..tx[t].nChunks |-> "PAYLOAD"] \o <<"TERM">>

\* C38: a transaction is finalised with NoError only if MAIL FROM, every
\* RCPT TO, DATA, every chunk of its rendering and the terminator were
\* written, in this order, on the connection on which the server answered
\* the terminator.
C38_NoErrorOnlyIfDelivered ==
    \A t \in 1..Len(tx) :
        (tx[t].finished > 0 /\ tx[t].error = "NoError") =>
            tx[t].sent = Delivery(t)

\* the transaction was finalised with NoError after a reconnect, on a
\* connection on which no chunk of its rendering was written
C38_EmptyAfterReconnect ==
    \E t \in 1..Len(tx) :
        /\ Finished(t, "NoError")
        /\ reachedRTS
        /\ tx[t].rLeft = 0
        /\ tx[t].sent = <<"MAIL">> \o [i \in 1..tx[t].nRcpt |-> "RCPT"]
                            \o <<"DATA", "TERM">>


(* ---- recipients ---- *)
\* the slot writes cmd, on a connected socket or not
Writing(cmd) ==
    \E i \in 1..Len(out') : out'[i].op = "write" /\ out'[i].what = cmd

\* C39: DATA is written only on a reply to MAIL FROM or RCPT TO that is no
\* error, after MAIL FROM and every RCPT TO of the head transaction were
\* written on this connection, each following a reply of this kind; a reply
\* in RcptTo that is not taken as 250 (every 4xx/5xx is not) finalises the
\* head transaction with ResponseError, writes RSET, and no byte of the
\* message was written since its MAIL FROM or will be written: its renderer
\* is aborted and detached.
C39_AllOrNothing ==
    [][/\ Writing("DATA") =>
             /\ last'.slot = "response" /\ last'.code = 0
             /\ state \in {"MailFrom", "RcptTo"}
             /\ queue # <<>> /\ queue' = queue
             /\ rcptLeft = 0
             /\ hist.mail = Head(queue)
             /\ hist.sent = <<"MAIL">>
                    \o [i \in 1..tx[Head(queue)].nRcpt |-> "RCPT"]
       /\ Writing("RCPT") =>
             /\ last'.slot = "response" /\ last'.code = 0
             /\ state \in {"MailFrom", "RcptTo"}
             /\ rcptLeft > 0
       /\ ErrorReplyIn({"MailFrom", "RcptTo"}) =>
             ~Writing("RCPT") /\ ~Writing("DATA")
       /\ (/\ last'.slot = "response"
           /\ state = "RcptTo"
           /\ ~Writing("RCPT") /\ ~Writing("DATA")) =>
             /\ queue # <<>> /\ queue' = Tail(queue)
             /\ tx'[Head(queue)].error = "ResponseError"
             /\ FinalisesOnly({Head(queue)})
             /\ Writing("RSET") /\ ~Writing("PAYLOAD")
             /\ state' = "ReadyToSend"
             /\ hist.sent \in {<<"MAIL">> \o [i \in 1..n |-> "RCPT"] :
                                   n \in 1..tx[Head(queue)].nRcpt}
             /\ tx'[Head(queue)].rState = "Finished"
             /\ tx'[Head(queue)].rConn = 0
             /\ ~tx'[Head(queue)].rPosted]_vars

\* the first of two RCPT TO commands was answered with 550: the transaction
\* is finalised with ResponseError and RSET is written
C39_FirstRecipientRejected ==
    \E t \in 1..Len(tx) :
        /\ last.slot = "response"
        /\ last.code = 550
        /\ state = "ReadyToSend"
        /\ Finished(t, "ResponseError")
        /\ Wrote("RSET")
        /\ tx[t].nRcpt = 2
        /\ rcptLeft = 1
        /\ tx[t].rLeft = tx[t].nChunks


(* ---- the head of the queue ---- *)
\* the slot reads queue.head() or calls queue.dequeue() in a branch of
\* _q_processStates for MailFromState..DataSentState: the renderer is
\* connected on 354, the EndOfMessageState branch writes the terminator or
\* finalises with DataError, the DataSentState branch finalises with
\* NoError, the else branch with ResponseError
HeadDereferenced ==
    /\ state \in {"MailFrom", "RcptTo", "Data", "EndOfMessage", "DataSent"}
    /\ \/ state = "Data" /\ state' = "EndOfMessage"
       \/ Writing("TERM")
       \/ \E i \in 1..Len(out') :
             /\ out'[i].op = "finished"
             /\ out'[i].what \in {"DataError", "NoError", "ResponseError"}

C37_InvalidLineIsError ==
    [][(last'.slot = "discarded" /\ state \in AwaitingReply /\ queue # <<>>)
           => /\ tx'[Head(queue)].finished > 0
              /\ tx'[Head(queue)].error = "ResponseError"]_vars

\* the reply to MAIL FROM was a badly framed line: the line is dropped, the
\* transaction is not finalised and the FSM still waits for the reply
C37_LineDropped ==
    /\ last.slot = "discarded"
    /\ state = "MailFrom"
    /\ queue # <<>>
    /\ tx[Head(queue)].finished = 0
    /\ tx[Head(queue)].error = "NoError"
    /\ ~response.isValid
    /\ response.lines = <<>>
    /\ timerActive

====
